---- MODULE Spec2Model ----
(***************************************************************************)
(* Model of the cache-augmented online pre-training loop:                  *)
(*   src/src/model/modeling.py   trim_cache, cache_to, LSWTModel.forward    *)
(*   src/src/training/trainer.py Trainer (schedule, batch step, epoch)      *)
(*   src/src/training/minato.py  Minato.step, _single_tensor_minato         *)
(*                                                                         *)
(* Four specifications share the module.  Each one drives its own group of *)
(* variables and leaves the other groups at their idle value:              *)
(*   SpecTrim    trim_cache / cache_to applied to bounded caches           *)
(*   SpecTrain   Trainer.train_epoch / train_batch_step / train_optim_step *)
(*   SpecMinato  Minato.step on two parameter groups                       *)
(*   SpecSched   Trainer.get_schedule over bounded configurations          *)
(***************************************************************************)
EXTENDS Integers, Sequences, FiniteSets, TLC

VARIABLES
    \* ---- SpecTrim: one call of trim_cache and one of cache_to
    tc_cache,      \* the per-layer cache handed in: <<k, v>>
    tc_trim,       \* the trim argument: None or Some(int)
    tc_pc,         \* "start" | "trimmed" | "moved"
    tc_out,        \* the returned cache
    \* ---- SpecSched: get_schedule as a function of optimizer_step
    sc_config,     \* the schedule fields of train_config
    sc_step,       \* self.optimizer_step
    sc_value,      \* None, or the value get_schedule returned at sc_step
    sc_prev,       \* None, or the value get_schedule returned at sc_step - 1
    \* ---- SpecMinato: the optimizer and its parameters
    opt_hyper,     \* the optimizer defaults: lr, beta, weight_decay, maximize, capturable
    opt_param,     \* parameter index -> value of the parameter
    opt_grad,      \* parameter index -> p.grad at the last step() call
    opt_state,     \* parameter index -> None or Some([step, exp_avg]): self.state[p]
    opt_status,    \* "ready" | "ok" | "sparse_error" | "attribute_error"
    opt_calls,     \* number of step() calls made
    opt_seen,      \* parameter index -> number of step() calls that found a dense p.grad
    \* ---- SpecTrain: the Trainer
    train_config,          \* self.train_config (and model.config.n_layers)
    past_key_values_list,  \* self.past_key_values_list: one None-or-cache per group
    batch_groups,          \* self.batch_groups
    optimizer_step,        \* self.optimizer_step
    group_lr,              \* p_group['lr'] of each optimizer parameter group
    metrics,               \* number of updates held by self.metrics['loss'] / ['acc']
    pc,                    \* position of the thread in train_epoch / train_batch_step
    epoch,                 \* train_epoch calls completed
    batch,                 \* loop variable of train_epoch
    idx,                   \* loop variable of train_batch_step
    past_key_values,       \* local past_key_values of train_batch_step
    \* history of the run
    groups_run,            \* group indices whose sub-step ran in this batch step
    batch_steps_done,      \* train_batch_step calls completed
    optim_steps_done,      \* optimizer steps executed, with the lr each one saw
    backward_reached,      \* sub-steps whose computation the last backward() reached
    epochs_read,           \* per completed epoch: batch steps run when metrics were reset
    tokens_xs,             \* local tokens_xs / tokens_ys of train_batch_step: the split batch
    p_grad,                \* p.grad of a parameter, as the backward passes accumulate it
    rows_run,              \* rows of the batch handed to a sub-step in this batch step
    slot_log,              \* accesses to past_key_values_list in this batch step
    \* ---- SpecInit: Trainer.__init__ / TrainerDDP.__init__ on one process
    ctor_args,     \* the class constructed and the arguments / train_config fields read
    ctor_pc,       \* position in __init__, "done", or "error"
    ctor_self,     \* the fields of self set so far, and the exception raised
    \* ---- SpecDDP: one TrainerDDP per rank, running train_batch_step
    ddp_config,    \* train_config fields, ddp_world_size, dataset_shards
    ddp_self,      \* rank -> batch_groups, past_key_values_list, pile_shards, optimizer_step
    ddp_pc,        \* rank -> position in train_batch_step
    ddp_idx,       \* rank -> loop variable idx
    ddp_sync,      \* rank -> self.model.require_backward_grad_sync
    ddp_log,       \* rank -> the sub-steps run: batch step, idx, sync flag at backward()
    ddp_reduced,   \* rank -> backward passes run with gradient synchronization on
    ddp_steps,     \* rank -> per optimizer step run: sub-steps logged, ranks reduced with
    \* ---- SpecReset: the ranks running TrainerDDP.reset_metrics
    rst_world,     \* ddp_world_size
    rst_epoch,     \* rank -> the metrics as the epoch left them (never changed)
    rst_metrics,   \* rank -> self.metrics: name -> state of the Mean
    rst_pc,        \* rank -> position in reset_metrics
    rst_name,      \* rank -> place of the loop in self.metrics.items()
    rst_gathered,  \* name -> rank -> state the rank gave to the collective, if any
    rst_stats,     \* rank -> stats: name -> value stored, if any
    rst_barrier,   \* rank -> dist.barrier() calls entered
    rst_events     \* rank -> what the rank has done: << name, "synced" | "reset" >>

trimVars  == <<tc_cache, tc_trim, tc_pc, tc_out>>
schedVars == <<sc_config, sc_step, sc_value, sc_prev>>
optVars   == <<opt_hyper, opt_param, opt_grad, opt_state, opt_status, opt_calls,
               opt_seen>>
trainVars == <<train_config, past_key_values_list, batch_groups, optimizer_step,
               group_lr, metrics, pc, epoch, batch, idx, past_key_values,
               groups_run, batch_steps_done, optim_steps_done, backward_reached,
               epochs_read, tokens_xs, p_grad, rows_run, slot_log>>
ctorVars  == <<ctor_args, ctor_pc, ctor_self>>
ddpVars   == <<ddp_config, ddp_self, ddp_pc, ddp_idx, ddp_sync, ddp_log, ddp_reduced,
               ddp_steps>>
resetVars == <<rst_world, rst_epoch, rst_metrics, rst_pc, rst_name, rst_gathered,
               rst_stats, rst_barrier, rst_events>>
extVars   == <<ctorVars, ddpVars, resetVars>>
vars      == <<trimVars, schedVars, optVars, trainVars, extVars>>

(***************************************************************************)
(* Bounds of the model.                                                    *)
(***************************************************************************)
MaxLen  == 3      \* longest sequence axis of a cache handed to trim_cache
MaxVal  == 2      \* distinct values a cache position may hold
MaxTrim == 4      \* largest trim / keep value tried
MaxWarmup         == 3    \* largest lr_warmup_steps
MaxCooldownTokens == 8    \* largest lr_cooldown_tokens
MaxSchedStep      == 10   \* largest optimizer_step get_schedule is read at
MaxCalls          == 2    \* step() calls per run of the optimizer
MaxEpochs         == 2    \* train_epoch calls per run of the trainer
MaxCacheLen       == 2    \* largest length_cache
MaxSeqLen         == 2    \* largest length_sequence of the trainer
MaxWorld          == 2    \* largest ddp_world_size
MaxShards         == 4    \* largest dataset_shards
MaxBatchSteps     == 2    \* train_batch_step calls per rank of the distributed trainer

(***************************************************************************)
(* Python's None and optional values: None is <<>>, a value x is <<x>>.    *)
(***************************************************************************)
None      == << >>
Some(x)   == << x >>
IsNone(o) == o = << >>
Get(o)    == o[1]

Min(a, b) == IF a <= b THEN a ELSE b
Max(a, b) == IF a >= b THEN a ELSE b

(***************************************************************************)
(* Tensors.  A key or value tensor has shape (batch, heads, seq, head_dim); *)
(* every operation of the cache code slices axis 2 only and takes the other *)
(* axes whole, so a tensor is modelled by its sequence axis:                *)
(*   data     one entry per sequence position, oldest first                 *)
(*   graph    the autograd history: the set of sub-steps whose computation  *)
(*            a backward pass through this tensor reaches ({} = detached)   *)
(*   device   "cuda" | "cpu"                                                *)
(***************************************************************************)
Tensor(d, g, dev) == [data |-> d, graph |-> g, device |-> dev]
SeqLen(t)         == Len(t.data)

\* Faulty variant of SliceFrom: keeps the positions from the old end.
SliceFromKeepOldest(t, start) ==
    LET L  == Len(t.data)
        n  == IF start < 0 THEN Min(0 - start, L) ELSE Max(L - start, 0)
    IN  [t EXCEPT !.data = SubSeq(t.data, 1, n)]
\* kv[ :, :, start :, : ] : Python slice semantics on the sequence axis.
\* A negative start counts from the end and is clipped at 0, a start past
\* the end gives the empty tensor.  A slice is a view: same history, device.
SliceFrom(t, start) ==
    LET L  == Len(t.data)
        lo == IF start < 0 THEN Max(L + start, 0) ELSE Min(start, L)
    IN  [t EXCEPT !.data = SubSeq(t.data, lo + 1, L)]

\* Faulty variant of Detach: the history is kept.
DetachKeepGraph(t) == t
\* Tensor.detach(): same data, no autograd history.
Detach(t) == [t EXCEPT !.graph = {}]

\* Tensor.to(device=...)
To(t, dev) == [t EXCEPT !.device = dev]

\* Variant of trim_cache in which trim = 0 empties the cache.
trim_cache_ZeroEmpty(cache, trim) ==
    IF ~IsNone(trim)
        THEN [i \in 1..Len(cache) |->
                 IF Get(trim) = 0 THEN [cache[i] EXCEPT !.data = << >>]
                 ELSE SliceFrom(cache[i], 0 - Get(trim))]
        ELSE cache
(***************************************************************************)
(* LSWTPreTrainedModel.trim_cache (modeling.py 77-96): applied per layer.  *)
(* -trim is 0 for trim = 0, and kv[ :, :, 0 :, : ] is the whole tensor.    *)
(***************************************************************************)
trim_cache(cache, trim) ==
    IF ~IsNone(trim)
        THEN [i \in 1..Len(cache) |-> SliceFrom(cache[i], 0 - Get(trim))]
        ELSE cache

(***************************************************************************)
(* LSWTPreTrainedModel.cache_to (modeling.py 98-129): cache is None or a   *)
(* list of layers, each a list of tensors; trim is an int.                 *)
(***************************************************************************)
cache_to(cache, device, trim) ==
    IF ~IsNone(cache)
        THEN Some([l \in 1..Len(Get(cache)) |->
                     [i \in 1..Len(Get(cache)[l]) |->
                         To(SliceFrom(Detach(Get(cache)[l][i]), 0 - trim), device)]])
        ELSE cache

(***************************************************************************)
(* Exact rational arithmetic for the floating-point quantities of the      *)
(* schedule and the optimizer: a number is <<n, d>> in lowest terms, d > 0.*)
(* Rounding of the float formats is not modelled.                          *)
(***************************************************************************)
RECURSIVE GCD(_, _)
GCD(a, b) == IF b = 0 THEN a ELSE GCD(b, a % b)
IAbs(n)   == IF n < 0 THEN 0 - n ELSE n

Rat(n, d) ==
    LET g == GCD(IAbs(n), IAbs(d))
        s == IF d < 0 THEN 0 - 1 ELSE 1
    IN  << (s * n) \div g, (s * d) \div g >>
RInt(n)    == << n, 1 >>
RZero      == << 0, 1 >>
ROne       == << 1, 1 >>
\* sums and products cancel common factors first, to keep the integers small
RAdd(a, b) ==
    LET g == GCD(a[2], b[2])
    IN  Rat(a[1] * (b[2] \div g) + b[1] * (a[2] \div g), (a[2] \div g) * b[2])
RNeg(a)    == << 0 - a[1], a[2] >>
RSub(a, b) == RAdd(a, RNeg(b))
RMul(a, b) ==
    LET g1 == GCD(IAbs(a[1]), b[2])
        g2 == GCD(IAbs(b[1]), a[2])
    IN  << (a[1] \div g1) * (b[1] \div g2), (a[2] \div g2) * (b[2] \div g1) >>
RLe(a, b)  ==
    LET g == GCD(a[2], b[2])
    IN  a[1] * (b[2] \div g) <= b[1] * (a[2] \div g)
RMin(a, b) == IF RLe(a, b) THEN a ELSE b
RAbs(a)    == << IAbs(a[1]), a[2] >>
RSign(a)   == IF a[1] > 0 THEN ROne ELSE IF a[1] < 0 THEN RNeg(ROne) ELSE RZero

(***************************************************************************)
(* np.cos( x * np.pi ) (trainer.py 214).  cos is even and has period 2 in  *)
(* x; on [0, 1] the model is exact at x = 0, 1/3, 1/2, 2/3, 1 (values 1,   *)
(* 1/2, 0, -1/2, -1) and interpolates linearly between those points, which *)
(* keeps it decreasing on [0, 1] and inside [-1, 1] like the cosine.       *)
(***************************************************************************)
CosPi(x) ==
    LET a  == RAbs(x)
        \* a mod 2
        m  == Rat(a[1] % (2 * a[2]), a[2])
        y  == IF RLe(m, ROne) THEN m ELSE RSub(RInt(2), m)
    IN  IF RLe(y, Rat(1, 3))      THEN RSub(ROne, RMul(Rat(3, 2), y))
        ELSE IF RLe(y, Rat(2, 3)) THEN RSub(Rat(3, 2), RMul(RInt(3), y))
        ELSE                           RSub(Rat(1, 2), RMul(Rat(3, 2), y))

\* Faulty variant of get_schedule: the cosine is not rescaled to the floor.
get_schedule_NoFloor(cfg, step) ==
    LET warmup_ratio   == RMin(Rat(step, cfg.lr_warmup_steps), ROne)
        tokens_seen    == step * cfg.batch_size * cfg.length_sequence
        warmup_tokens  == cfg.lr_warmup_steps * cfg.batch_size * cfg.length_sequence
        progress       == RMin(Rat(Max(tokens_seen - warmup_tokens, 0),
                                   cfg.lr_cooldown_tokens - warmup_tokens), ROne)
        cosine         == RAdd(RMul(CosPi(progress), Rat(1, 2)), Rat(1, 2))
    IN  RMin(warmup_ratio, cosine)
(***************************************************************************)
(* Trainer.get_schedule (trainer.py 199-217).  cfg holds the train_config  *)
(* fields it reads; step is self.optimizer_step.                           *)
(***************************************************************************)
get_schedule(cfg, step) ==
    LET warmup_ratio   == RMin(Rat(step, cfg.lr_warmup_steps), ROne)
        tokens_seen    == step * cfg.batch_size * cfg.length_sequence
        warmup_tokens  == cfg.lr_warmup_steps * cfg.batch_size * cfg.length_sequence
        progress       == RMin(Rat(Max(tokens_seen - warmup_tokens, 0),
                                   cfg.lr_cooldown_tokens - warmup_tokens), ROne)
        cosine         == RAdd(RMul(CosPi(progress), Rat(1, 2)), Rat(1, 2))
        cooldown_ratio == RAdd(RMul(cosine, RSub(ROne, cfg.lr_cooldown_ratio)),
                               cfg.lr_cooldown_ratio)
    IN  RMin(warmup_ratio, cooldown_ratio)

(***************************************************************************)
(* Minato (minato.py).  Gradients and moments may be far smaller than the  *)
(* parameters (the rule divides by 1e-15), so a gradient or moment is a    *)
(* pair of rationals [s, t] standing for  s + t * 1e-15.  The numbers of   *)
(* the model keep |s| >= 1e-4 when s # 0 and |t| <= 1e3, so that           *)
(*   |s + t*1e-15| / 1e-15 >= 1   whenever s # 0,                          *)
(*   |s + t*1e-15| / 1e-15 = |t|  when s = 0,                              *)
(* and the sign is that of s, or of t when s = 0.  Parameters, lr, beta    *)
(* and weight_decay are plain rationals.                                   *)
(***************************************************************************)
V(s, t)      == [s |-> s, t |-> t]
VZero        == V(RZero, RZero)
VAdd(a, b)   == V(RAdd(a.s, b.s), RAdd(a.t, b.t))
VScale(r, a) == V(RMul(r, a.s), RMul(r, a.t))
VNeg(a)      == V(RNeg(a.s), RNeg(a.t))
\* exp_avg.sign()
VSign(a)     == IF a.s # RZero THEN RSign(a.s) ELSE RSign(a.t)
\* (exp_avg.abs() / (0.0 + 1e-15)).clamp(None, 1)     (minato.py 145, 151)
VRatio(a)    == IF a.s # RZero THEN ROne ELSE RMin(RAbs(a.t), ROne)

\* p.grad: None, a dense tensor, or a sparse tensor
NoGrad       == [kind |-> "none",   val |-> VZero]
Dense(v)     == [kind |-> "dense",  val |-> v]
SparseGrad   == [kind |-> "sparse", val |-> VZero]

\* model.get_param_groups() (modeling.py 72-75) as Optimizer.__init__ completes
\* it from the defaults: the decay group, and the group with weight_decay 0.0.
\* Parameters 1 and 2 are in the first group, parameter 3 in the second.
ParamIds == {1, 2, 3}
get_param_groups(hyper) ==
    << [hyper EXCEPT !.params = <<1, 2>>],
       [hyper EXCEPT !.params = <<3>>, !.weight_decay = RZero] >>

\* Faulty variant of NewState: the counter starts at 1.
NewStateStepOne == [step |-> 1, exp_avg |-> VZero]
\* State initialization (minato.py 59-62)
NewState == [step |-> 0, exp_avg |-> VZero]

\* Faulty variant of CollectGrads: the state of a parameter is created before
\* its gradient is tested for sparseness.
RECURSIVE CollectGrads_InitFirst(_, _, _, _, _)
CollectGrads_InitFirst(mem, grads, plist, i, acc) ==
    IF i > Len(plist) THEN [mem |-> mem, params_with_grad |-> acc]
    ELSE LET p == plist[i] IN
        IF grads[p].kind = "none"
            THEN CollectGrads_InitFirst(mem, grads, plist, i + 1, acc)
        ELSE LET mem1 == IF IsNone(mem.state[p])
                            THEN [mem EXCEPT !.state[p] = Some(NewState)]
                            ELSE mem
             IN  IF grads[p].kind = "sparse"
                    THEN [mem |-> [mem1 EXCEPT !.status = "sparse_error"],
                          params_with_grad |-> Append(acc, p)]
                    ELSE CollectGrads_InitFirst(mem1, grads, plist, i + 1, Append(acc, p))
\* The loop over group['params'] of Minato.step (minato.py 49-65): skips a
\* parameter without gradient, raises on a sparse gradient, creates the state
\* of a parameter on its first gradient.  mem = [param, state, status].
RECURSIVE CollectGrads(_, _, _, _, _)
CollectGrads(mem, grads, plist, i, acc) ==
    IF i > Len(plist) THEN [mem |-> mem, params_with_grad |-> acc]
    ELSE LET p == plist[i] IN
        IF grads[p].kind = "none"
            THEN CollectGrads(mem, grads, plist, i + 1, acc)
        ELSE IF grads[p].kind = "sparse"
            THEN [mem |-> [mem EXCEPT !.status = "sparse_error"],
                  params_with_grad |-> Append(acc, p)]
        ELSE LET mem1 == IF IsNone(mem.state[p])
                            THEN [mem EXCEPT !.state[p] = Some(NewState)]
                            ELSE mem
             IN  CollectGrads(mem1, grads, plist, i + 1, Append(acc, p))

\* Faulty variant of DecayAndMoment: the decay is folded into the gradient.
DecayAndMomentCoupled(param, exp_avg, grad, group) ==
    [ param   |-> param,
      exp_avg |-> VAdd(VScale(group.beta, exp_avg),
                       VScale(RSub(ROne, group.beta),
                              VAdd(grad, V(RMul(group.weight_decay, param), RZero)))) ]
\* minato.py 134-138: decoupled weight decay on the parameter, then the
\* moving average of the gradient.  Returns [param, exp_avg].
DecayAndMoment(param, exp_avg, grad, group) ==
    [ param   |-> RMul(param, RSub(ROne, RMul(group.lr, group.weight_decay))),
      exp_avg |-> VAdd(VScale(group.beta, exp_avg),
                       VScale(RSub(ROne, group.beta), grad)) ]

\* Faulty variant of SignStep: the ratio is left out.
SignStepNoRatio(param, exp_avg, lr) ==
    RAdd(param, RMul(RNeg(lr), VSign(exp_avg)))
\* minato.py 149-152: step_size_neg = -lr;
\* param.addcmul_( exp_avg.sign(), ratio, value=step_size_neg )
SignStep(param, exp_avg, lr) ==
    RAdd(param, RMul(RNeg(lr), RMul(VSign(exp_avg), VRatio(exp_avg))))

\* _single_tensor_minato (minato.py 118-152) from parameter i of the list on.
\* With capturable set, lr is the plain number the group holds, and
\* step_size.neg() (line 143) raises AttributeError after the step counter,
\* the decay and the moment of that parameter have been written.
RECURSIVE single_tensor_minato(_, _, _, _, _)
single_tensor_minato(mem, grads, plist, i, group) ==
    IF i > Len(plist) THEN mem
    ELSE LET p    == plist[i]
             grad == IF ~group.maximize THEN grads[p].val ELSE VNeg(grads[p].val)
             st   == Get(mem.state[p])
             dm   == DecayAndMoment(mem.param[p], st.exp_avg, grad, group)
             mem1 == [mem EXCEPT
                        !.state[p] = Some([step |-> st.step + 1, exp_avg |-> dm.exp_avg]),
                        !.param[p] = dm.param]
         IN  IF group.capturable
                THEN [mem1 EXCEPT !.status = "attribute_error"]
                ELSE single_tensor_minato(
                        [mem1 EXCEPT !.param[p] = SignStep(dm.param, dm.exp_avg, group.lr)],
                        grads, plist, i + 1, group)

\* Minato.step (minato.py 42-77) from group gi on: an exception ends the call
\* where it is raised and leaves what was written before it.
RECURSIVE step(_, _, _, _)
step(mem, grads, groups, gi) ==
    IF gi > Len(groups) THEN mem
    ELSE LET c  == CollectGrads(mem, grads, groups[gi].params, 1, << >>)
         IN  IF c.mem.status # "ok" THEN c.mem
             ELSE LET m2 == single_tensor_minato(c.mem, grads, c.params_with_grad,
                                                  1, groups[gi])
                  IN  IF m2.status # "ok" THEN m2
                      ELSE step(m2, grads, groups, gi + 1)

(***************************************************************************)
(* SpecMinato: hyperparameters are drawn at construction; every step()     *)
(* call finds the gradients a backward pass (or zero_grad) left.           *)
(***************************************************************************)
\* every lr, beta and weight_decay below in the default eager mode, and one
\* configuration each with maximize and with capturable set
Hyper(lr, beta, wd, maximize, capturable) ==
    [ lr |-> lr, beta |-> beta, weight_decay |-> wd,
      maximize |-> maximize, capturable |-> capturable, params |-> << >> ]
Hypers ==
    { Hyper(lr, beta, wd, FALSE, FALSE) :
        lr \in { Rat(1, 10), Rat(1, 2) },
        beta \in { RZero, Rat(9, 10) },
        wd \in { RZero, Rat(1, 5) } }
    \cup { Hyper(Rat(1, 10), Rat(9, 10), Rat(1, 5), TRUE, FALSE),
           Hyper(Rat(1, 10), Rat(9, 10), Rat(1, 5), FALSE, TRUE) }

\* 1, -1, 0, and 1e-16 for the first parameter; 1 for the others
GradChoices(p) ==
    IF p = 1
        THEN { NoGrad, SparseGrad, Dense(VZero), Dense(V(ROne, RZero)),
               Dense(V(RNeg(ROne), RZero)), Dense(V(RZero, Rat(1, 10))) }
        ELSE { NoGrad, SparseGrad, Dense(V(ROne, RZero)) }
GradInputs ==
    { g \in [ParamIds -> GradChoices(1)] : \A p \in ParamIds : g[p] \in GradChoices(p) }

OptIdle ==
    /\ opt_hyper = << >>
    /\ opt_param = << >>
    /\ opt_grad = << >>
    /\ opt_state = << >>
    /\ opt_status = "idle"
    /\ opt_calls = 0
    /\ opt_seen = << >>

OptInit ==
    /\ opt_hyper \in Hypers
    /\ opt_param = [p \in ParamIds |-> IF p = 1 THEN ROne ELSE RInt(0 - 2)]
    /\ opt_grad = [p \in ParamIds |-> NoGrad]
    /\ opt_state = [p \in ParamIds |-> None]
    /\ opt_status = "ready"
    /\ opt_calls = 0
    /\ opt_seen = [p \in ParamIds |-> 0]

\* optimizer.step()
MinatoStep ==
    /\ opt_status \in {"ready", "ok"}
    /\ opt_calls < MaxCalls
    /\ \E grads \in GradInputs :
        /\ LET m == step([param |-> opt_param, state |-> opt_state, status |-> "ok"],
                         grads, get_param_groups(opt_hyper), 1)
           IN  /\ opt_grad' = grads
               /\ opt_param' = m.param
               /\ opt_state' = m.state
               /\ opt_status' = m.status
               /\ opt_seen' = [p \in ParamIds |->
                                 opt_seen[p] + IF grads[p].kind = "dense" THEN 1 ELSE 0]
    /\ opt_calls' = opt_calls + 1
    /\ UNCHANGED opt_hyper

(***************************************************************************)
(* The model's forward pass, as far as the KV cache goes.                  *)
(***************************************************************************)
\* self.blocks[i]( embeddings, curr_key_values, ... ) -> new_key_values.
\* The block is not part of the sources at hand; by the cache contract the
\* new keys/values are the prior ones followed by the seq_len positions of
\* this call, and they are computed inside sub-step sub_id's autograd graph.
Block(curr_key_values, seq_len, stamp, sub_id) ==
    LET fresh == [i \in 1..seq_len |-> stamp]
    IN  IF IsNone(curr_key_values)
            THEN << Tensor(fresh, {sub_id}, "cuda"), Tensor(fresh, {sub_id}, "cuda") >>
            ELSE [i \in 1..Len(Get(curr_key_values)) |->
                    Tensor(Get(curr_key_values)[i].data \o fresh,
                           Get(curr_key_values)[i].graph \cup {sub_id}, "cuda")]

\* Faulty variant of forward: the new cache is not trimmed.
forward_NoTrim(prior, max_key_values, n_layers, seq_len, stamp, sub_id) ==
    [i \in 1..n_layers |->
        Block(IF ~IsNone(prior) THEN Some(Get(prior)[i]) ELSE None,
              seq_len, stamp, sub_id)]
\* LSWTModel.forward, the loop over the layers (modeling.py 233-238)
forward(prior, max_key_values, n_layers, seq_len, stamp, sub_id) ==
    [i \in 1..n_layers |->
        trim_cache(Block(IF ~IsNone(prior) THEN Some(Get(prior)[i]) ELSE None,
                         seq_len, stamp, sub_id),
                   max_key_values)]

\* Trainer.forward_pass (trainer.py 234-251) with LSWTForCausalLM.forward
\* (modeling.py 324-337): use_cache = cache_length > 0.
forward_pass(prior, cache_length, n_layers, seq_len, stamp, sub_id) ==
    IF cache_length > 0
        THEN Some(forward(prior, Some(cache_length), n_layers, seq_len, stamp, sub_id))
        ELSE None

\* The autograd history of a cache: every sub-step one of its tensors links to
GraphOf(cache) ==
    IF IsNone(cache) THEN {}
    ELSE UNION { Get(cache)[l][i].graph :
                    l \in 1..Len(Get(cache)), i \in 1..Len(Get(cache)[1]) }

\* Trainer.train_sub_step (trainer.py 258-279): the forward pass on the prior
\* cache, then backward() from the loss, which reaches this sub-step's graph
\* and whatever graph the prior cache is linked to.
train_sub_step(cfg, prior, stamp, sub_id) ==
    [ past_key_values |-> forward_pass(prior, cfg.length_cache, cfg.n_layers,
                                       cfg.length_sequence, stamp, sub_id),
      backward        |-> {sub_id} \cup GraphOf(prior) ]

(***************************************************************************)
(* The batch and its gradient.  A row of the batch is its position in the  *)
(* batch and the gradient of its own loss with respect to one parameter    *)
(* (the model is deterministic: a row gives the same gradient in whatever  *)
(* pass it is computed).                                                   *)
(***************************************************************************)
Row(j, g) == [id |-> j, grad |-> g]

\* torch.split( tensor, split_size ) on axis 0 (trainer.py 300-301): chunks
\* of split_size rows, the last one smaller when split_size does not divide
\* the number of rows.
RECURSIVE split(_, _)
split(rows, split_size) ==
    IF Len(rows) <= split_size THEN << rows >>
    ELSE << SubSeq(rows, 1, split_size) >>
            \o split(SubSeq(rows, split_size + 1, Len(rows)), split_size)

\* the concatenation of the chunks, in order
RECURSIVE Concat(_)
Concat(chunks) ==
    IF Len(chunks) = 0 THEN << >> ELSE chunks[1] \o Concat(Tail(chunks))

RECURSIVE SumGrads(_)
SumGrads(rows) ==
    IF Len(rows) = 0 THEN RZero ELSE RAdd(rows[1].grad, SumGrads(Tail(rows)))

\* The gradient of the loss of one pass over the rows given.  The loss
\* functions are not part of the sources at hand; the loss is the mean over
\* the rows of the pass, so its gradient is the mean of the rows' gradients.
LossGrad(rows) == RMul(SumGrads(rows), Rat(1, Len(rows)))

\* Faulty variant of accu_loss: the group loss is not divided.
accu_loss_NoDivide(loss, groups) == loss
\* trainer.py 267: accu_loss = ( mle_loss + aux_loss ) / self.batch_groups
accu_loss(loss, groups) == RMul(loss, Rat(1, groups))

\* torch.cuda.amp.GradScaler() (trainer.py 66) starts at a scale of 2^16
init_scale == 65536
\* self.optimizer_scaler.scale( accu_loss )
scale(x) == RMul(RInt(init_scale), x)
\* what unscale_ / scaler.step make of a gradient before the optimizer reads it
unscale(x) == RMul(x, Rat(1, init_scale))

\* trainer.py 266-268: backward() adds the gradient of the scaled
\* accumulation loss of this group to p.grad
backward(grad, rows, groups) == RAdd(grad, scale(accu_loss(LossGrad(rows), groups)))

\* self.past_key_values_list[idx]  (Python indices start at 0)
GetItem(list, i) == list[i + 1]
\* Faulty variant of SetItem: the first slot is written whatever the index.
SetItemFirst(list, i, x) == [list EXCEPT ![1] = x]
\* self.past_key_values_list[idx] = x
SetItem(list, i, x) == [list EXCEPT ![i + 1] = x]

(***************************************************************************)
(* The Trainer (trainer.py 36-338).                                        *)
(***************************************************************************)
\* Trainer._load_cache (trainer.py 100-102)
load_cache(cfg) ==
    [i \in 1..(cfg.batch_size \div cfg.batch_size_step) |-> None]

\* Faulty variant of NextGroup: the optimizer runs after the first group.
NextGroupOptimEach(i, n) == IF i = 0 /\ n > 0 THEN "restore" ELSE "optim_lr"
\* train_batch_step (trainer.py 303, 315): where the thread goes when group
\* i is the next value of range( self.batch_groups )
NextGroup(i, n) == IF i < n THEN "restore" ELSE "optim_lr"

\* Faulty variant of SetLearningRate: the schedule is read before the counter
\* is advanced.
SetLearningRateStale(cfg, step_now, lrs) ==
    [ optimizer_step |-> step_now + 1,
      group_lr       |-> [g \in 1..Len(lrs) |->
                             RMul(get_schedule(cfg, step_now), cfg.lr_max)] ]
\* train_optim_step (trainer.py 282-285): the counter is advanced, then the
\* schedule is read for every parameter group
SetLearningRate(cfg, step_now, lrs) ==
    [ optimizer_step |-> step_now + 1,
      group_lr       |-> [g \in 1..Len(lrs) |->
                             RMul(get_schedule(cfg, step_now + 1), cfg.lr_max)] ]

TrainConfigs ==
    { c \in [ batch_size         : 1..4,
              batch_size_step    : {1, 2},
              length_cache       : 0..MaxCacheLen,
              length_sequence    : 1..MaxSeqLen,
              n_layers           : {1, 2},
              batches_per_epoch  : {1, 2},
              lr_warmup_steps    : {1, 2},
              lr_cooldown_tokens : {6},
              lr_cooldown_ratio  : { RZero, Rat(1, 10) },
              lr_max             : { Rat(1, 100) },
              opt_max_grad_norm  : {0, 1} ] :
        c.lr_cooldown_tokens # c.lr_warmup_steps * c.batch_size * c.length_sequence }

\* next( iterator ): batch_size rows.  The rows' gradients are all 1, or rise
\* with the position in the batch, or alternate in sign.
Batches(cfg) ==
    { [j \in 1..cfg.batch_size |-> Row(j, RInt(1))],
      [j \in 1..cfg.batch_size |-> Row(j, RInt(j))],
      [j \in 1..cfg.batch_size |-> Row(j, IF j % 2 = 1 THEN RInt(3) ELSE RInt(0 - 1))] }

TrainIdle ==
    /\ train_config = << >>
    /\ past_key_values_list = << >>
    /\ batch_groups = 0
    /\ optimizer_step = 0
    /\ group_lr = << >>
    /\ metrics = 0
    /\ pc = "idle"
    /\ epoch = 0
    /\ batch = 0
    /\ idx = 0
    /\ past_key_values = None
    /\ groups_run = << >>
    /\ batch_steps_done = 0
    /\ optim_steps_done = << >>
    /\ backward_reached = {}
    /\ epochs_read = << >>
    /\ tokens_xs = << >>
    /\ p_grad = RZero
    /\ rows_run = << >>
    /\ slot_log = << >>

\* Trainer.__init__ (trainer.py 61-81); the optimizer is built with lr=0.0
\* on the two groups of get_param_groups
TrainInit ==
    /\ train_config \in TrainConfigs
    /\ past_key_values_list = load_cache(train_config)
    /\ batch_groups = train_config.batch_size \div train_config.batch_size_step
    /\ optimizer_step = 0
    /\ group_lr = << RZero, RZero >>
    /\ metrics = 0
    /\ pc = "caller"
    /\ epoch = 0
    /\ batch = 0
    /\ idx = 0
    /\ past_key_values = None
    /\ groups_run = << >>
    /\ batch_steps_done = 0
    /\ optim_steps_done = << >>
    /\ backward_reached = {}
    /\ epochs_read = << >>
    /\ tokens_xs = << >>
    /\ p_grad = RZero
    /\ rows_run = << >>
    /\ slot_log = << >>

\* the sub-step of group idx in the batch step under way
SubStepId == << batch_steps_done + 1, idx >>

\* one access to past_key_values_list
Access(op, slot, group) == [op |-> op, slot |-> slot, group |-> group]

\* train_epoch (trainer.py 320-321) calls train_batch_step on the next batch
\* of the iterator; train_batch_step splits it and enters its loop
\* (trainer.py 296-303)
BeginBatchStep ==
    /\ pc = "caller"
    /\ epoch < MaxEpochs
    /\ batch < train_config.batches_per_epoch
    /\ \E b \in Batches(train_config) :
          tokens_xs' = split(b, train_config.batch_size_step)
    /\ idx' = 0
    /\ groups_run' = << >>
    /\ rows_run' = << >>
    /\ slot_log' = << >>
    /\ pc' = NextGroup(0, batch_groups)
    /\ UNCHANGED <<train_config, past_key_values_list, batch_groups, optimizer_step,
                   group_lr, metrics, epoch, batch, past_key_values,
                   batch_steps_done, optim_steps_done, backward_reached, epochs_read,
                   p_grad>>

\* trainer.py 304-305: the slot is moved to the device and emptied
RestoreCache ==
    /\ pc = "restore"
    /\ past_key_values' = cache_to(GetItem(past_key_values_list, idx), "cuda", 0)
    /\ past_key_values_list' = SetItem(past_key_values_list, idx, None)
    /\ slot_log' = slot_log \o << Access("read", idx, idx), Access("clear", idx, idx) >>
    /\ pc' = "sub_step"
    /\ UNCHANGED <<train_config, batch_groups, optimizer_step, group_lr, metrics,
                   epoch, batch, idx, groups_run, batch_steps_done,
                   optim_steps_done, backward_reached, epochs_read, tokens_xs,
                   p_grad, rows_run>>

\* trainer.py 307: train_sub_step on the group's rows and the restored cache
TrainSubStep ==
    /\ pc = "sub_step"
    /\ LET r == train_sub_step(train_config, past_key_values,
                               batch_steps_done + 1, SubStepId)
       IN  /\ past_key_values' = r.past_key_values
           /\ backward_reached' = r.backward
    /\ p_grad' = backward(p_grad, GetItem(tokens_xs, idx), batch_groups)
    /\ rows_run' = rows_run \o [j \in 1..Len(GetItem(tokens_xs, idx)) |->
                                   GetItem(tokens_xs, idx)[j].id]
    /\ groups_run' = Append(groups_run, idx)
    /\ pc' = "offload"
    /\ UNCHANGED <<train_config, past_key_values_list, batch_groups, optimizer_step,
                   group_lr, metrics, epoch, batch, idx, batch_steps_done,
                   optim_steps_done, epochs_read, tokens_xs, slot_log>>

\* trainer.py 309-313: the returned cache goes back to the slot on the host,
\* the metrics take the sub-step's loss and accuracy, the loop advances
OffloadCache ==
    /\ pc = "offload"
    /\ past_key_values' = cache_to(past_key_values, "cpu", 0)
    /\ past_key_values_list' =
          SetItem(past_key_values_list, idx, cache_to(past_key_values, "cpu", 0))
    /\ slot_log' = Append(slot_log, Access("write", idx, idx))
    /\ metrics' = metrics + 1
    /\ idx' = idx + 1
    /\ pc' = NextGroup(idx + 1, batch_groups)
    /\ UNCHANGED <<train_config, batch_groups, optimizer_step, group_lr, epoch, batch,
                   groups_run, batch_steps_done, optim_steps_done, backward_reached,
                   epochs_read, tokens_xs, p_grad, rows_run>>

\* train_optim_step, first part (trainer.py 282-285)
TrainOptimSetLr ==
    /\ pc = "optim_lr"
    /\ LET r == SetLearningRate(train_config, optimizer_step, group_lr)
       IN  /\ optimizer_step' = r.optimizer_step
           /\ group_lr' = r.group_lr
    /\ pc' = "optim_step"
    /\ UNCHANGED <<train_config, past_key_values_list, batch_groups, metrics, epoch,
                   batch, idx, past_key_values, groups_run, batch_steps_done,
                   optim_steps_done, backward_reached, epochs_read, tokens_xs,
                   p_grad, rows_run, slot_log>>

\* train_optim_step, second part (trainer.py 287-293): optional unscale and
\* clip, the optimizer step, zero_grad; train_batch_step returns (its split
\* batch goes out of scope) and train_epoch reads the running metrics for the
\* progress bar (323-332)
TrainOptimStep ==
    /\ pc = "optim_step"
    /\ optim_steps_done' =
          Append(optim_steps_done,
                 [ lr      |-> group_lr,
                   at      |-> optimizer_step,
                   clipped |-> train_config.opt_max_grad_norm > 0,
                   groups  |-> groups_run ])
    /\ p_grad' = RZero
    /\ tokens_xs' = << >>
    /\ batch_steps_done' = batch_steps_done + 1
    /\ batch' = batch + 1
    /\ pc' = "caller"
    /\ UNCHANGED <<train_config, past_key_values_list, batch_groups, optimizer_step,
                   group_lr, metrics, epoch, idx, past_key_values, groups_run,
                   backward_reached, epochs_read, rows_run, slot_log>>

\* train_epoch after its loop (trainer.py 333-338): reset_metrics (186-197)
\* reads and resets the metrics; the next train_epoch call starts at batch 0
EndEpoch ==
    /\ pc = "caller"
    /\ epoch < MaxEpochs
    /\ batch >= train_config.batches_per_epoch
    /\ epochs_read' = Append(epochs_read, [ batches |-> batch, updates |-> metrics ])
    /\ metrics' = 0
    /\ epoch' = epoch + 1
    /\ batch' = 0
    /\ UNCHANGED <<train_config, past_key_values_list, batch_groups, optimizer_step,
                   group_lr, pc, idx, past_key_values, groups_run, batch_steps_done,
                   optim_steps_done, backward_reached, tokens_xs, p_grad, rows_run,
                   slot_log>>

(***************************************************************************)
(* SpecTrim: a cache is drawn, then trim_cache or cache_to is applied.     *)
(***************************************************************************)
\* The caches handed in: key and value tensor of one layer, same length.
\* The value tensor holds the key's entries shifted by MaxVal, so that the
\* two tensors differ.
TrimInputs ==
    { << Tensor(d, g, "cuda"),
         Tensor([i \in 1..Len(d) |-> d[i] + MaxVal], g, "cuda") >> :
        d \in UNION { [1..L -> 1..MaxVal] : L \in 0..MaxLen },
        g \in { {}, {1} } }

TrimIdle ==
    /\ tc_cache = << >>
    /\ tc_trim = None
    /\ tc_pc = "idle"
    /\ tc_out = << >>

TrimInit ==
    /\ tc_cache \in TrimInputs
    /\ tc_trim \in {None} \cup { Some(k) : k \in 0..MaxTrim }
    /\ tc_pc = "start"
    /\ tc_out = << >>

\* self.trim_cache( cache, trim )
ApplyTrimCache ==
    /\ tc_pc = "start"
    /\ tc_out' = trim_cache(tc_cache, tc_trim)
    /\ tc_pc' = "trimmed"
    /\ UNCHANGED <<tc_cache, tc_trim>>

\* self.cache_to( [cache], 'cpu', trim ) : trim is an int here
ApplyCacheTo ==
    /\ tc_pc = "start"
    /\ ~IsNone(tc_trim)
    /\ tc_out' = cache_to(Some(<<tc_cache>>), "cpu", Get(tc_trim))
    /\ tc_pc' = "moved"
    /\ UNCHANGED <<tc_cache, tc_trim>>

(***************************************************************************)
(* SpecSched: a schedule configuration is drawn; get_schedule is read at   *)
(* optimizer_step 0, 1, 2, ...  Configurations that divide by zero         *)
(* (lr_cooldown_tokens equal to the warmup tokens) are left out.           *)
(***************************************************************************)
SchedConfigs ==
    { c \in [ lr_warmup_steps    : 1..MaxWarmup,
              batch_size         : {1, 2},
              length_sequence    : {1, 2},
              lr_cooldown_tokens : 1..MaxCooldownTokens,
              lr_cooldown_ratio  : { RZero, Rat(1, 10), Rat(1, 2), ROne } ] :
        c.lr_cooldown_tokens # c.lr_warmup_steps * c.batch_size * c.length_sequence }

SchedIdle ==
    /\ sc_config = << >>
    /\ sc_step = 0
    /\ sc_value = None
    /\ sc_prev = None

SchedInit ==
    /\ sc_config \in SchedConfigs
    /\ sc_step = 0
    /\ sc_value = None
    /\ sc_prev = None

\* self.get_schedule()
CallGetSchedule ==
    /\ IsNone(sc_value)
    /\ sc_value' = Some(get_schedule(sc_config, sc_step))
    /\ UNCHANGED <<sc_config, sc_step, sc_prev>>

\* self.optimizer_step += 1
NextOptimizerStep ==
    /\ ~IsNone(sc_value)
    /\ sc_step < MaxSchedStep
    /\ sc_step' = sc_step + 1
    /\ sc_value' = None
    /\ sc_prev' = sc_value
    /\ UNCHANGED sc_config

(***************************************************************************)
(* Construction: Trainer.__init__ (trainer.py 61-81) and                   *)
(* TrainerDDP.__init__ (trainer.py 375-382).  The _load_* methods are      *)
(* looked up on the class constructed.                                     *)
(***************************************************************************)
\* A Python callable's keyword parameters: a call raises TypeError when it
\* passes a keyword the callable does not take or leaves out a required one.
Signature(accepted, required) == [accepted |-> accepted, required |-> required]
Returned(x) == [ok |-> TRUE, value |-> x, error |-> ""]
Raised(e)   == [ok |-> FALSE, value |-> "", error |-> e]
Call(cls, sig, kwargs) ==
    IF kwargs \subseteq sig.accepted /\ sig.required \subseteq kwargs
        THEN Returned(cls)
        ELSE Raised("TypeError")

\* Minato.__init__( self, params, lr, beta, weight_decay, *, maximize,
\* capturable ) (minato.py 9-11)
Minato_init ==
    Signature({"params", "lr", "beta", "weight_decay", "maximize", "capturable"},
              {"params"})
\* torch.optim.AdamW.__init__
AdamW_init ==
    Signature({"params", "lr", "betas", "eps", "weight_decay", "amsgrad", "maximize",
               "foreach", "capturable", "differentiable", "fused"},
              {"params"})
\* LaProp is not part of the sources at hand; it is one of the optimizer
\* kinds the configuration may name, taking what the trainers pass it.
LaProp_init ==
    Signature({"params", "lr", "betas", "eps", "weight_decay"}, {"params"})

\* ZeroRedundancyOptimizer( params, optimizer_class, **defaults ) builds
\* optimizer_class( params, **defaults ) for its shard.
ZeroRedundancyOptimizer(cls, sig, defaults) ==
    LET local == Call(cls, sig, {"params"} \cup defaults)
    IN  IF local.ok THEN Returned(<< "ZeroRedundancyOptimizer", cls >>) ELSE local

\* Trainer._load_optimizer (trainer.py 104-134)
Trainer_load_optimizer(cfg) ==
    IF cfg.optimizer = "Minato"
        THEN Call("Minato", Minato_init,
                  {"params", "lr", "betas", "eps", "rho", "weight_decay"})
    ELSE IF cfg.optimizer = "AdamW"
        THEN Call("AdamW", AdamW_init,
                  {"params", "lr", "betas", "eps", "weight_decay", "fused"})
    ELSE IF cfg.optimizer = "LaProp"
        THEN Call("LaProp", LaProp_init,
                  {"params", "lr", "betas", "eps", "weight_decay"})
    ELSE Raised("ValueError: Invalid optimizer")

\* TrainerDDP._load_optimizer (trainer.py 389-411)
TrainerDDP_load_optimizer(cfg) ==
    IF cfg.optimizer = "LaProp"
        THEN ZeroRedundancyOptimizer("LaProp", LaProp_init,
                                     {"lr", "betas", "eps", "weight_decay"})
    ELSE IF cfg.optimizer = "Minato"
        THEN ZeroRedundancyOptimizer("Minato", Minato_init,
                                     {"lr", "betas", "rho", "eps", "weight_decay"})
    ELSE Raised("ValueError: Invalid optimizer")

\* TrainerDDP._load_cache (trainer.py 413-415)
TrainerDDP_load_cache(cfg, ddp_world_size) ==
    [i \in 1..(cfg.batch_size \div (cfg.batch_size_step * ddp_world_size)) |-> None]

\* Faulty variant of range: the step is taken as 1.
range_UnitStep(start, stop, stride) ==
    [k \in 1..Max(stop - start, 0) |-> start + (k - 1)]
\* list( range( start, stop, stride ) ) for stride > 0
range(start, stop, stride) ==
    [k \in 1..((Max(stop - start, 0) + stride - 1) \div stride) |->
        start + (k - 1) * stride]

\* Trainer._load_dataset (trainer.py 152-179), dataset given by name: the
\* loader built, or the error
Trainer_load_dataset(dataset) ==
    IF dataset = "pile" THEN Returned("PileDataset")
    ELSE IF dataset = "openorca" THEN Returned("OpenOrcaDataset")
    ELSE Raised("ValueError: Invalid dataset choice")

\* TrainerDDP._load_dataset (trainer.py 417-427): the shards of the rank
TrainerDDP_load_dataset(dataset, ddp_rank, ddp_world_size, dataset_shards) ==
    IF dataset = "pile"
        THEN Returned([ cls         |-> "PileDataset",
                        pile_shards |-> range(ddp_rank, dataset_shards, ddp_world_size) ])
        ELSE Raised("ValueError: Invalid dataset choice")

\* Trainer._load_loss_function (trainer.py 136-150)
load_loss_function(cfg) ==
    IF cfg.loss_objective = "MLE" THEN Returned("MLELoss")
    ELSE IF cfg.loss_objective = "SimCTG" THEN Returned("SimCTGLoss")
    ELSE Raised("ValueError: Invalid loss function")

CtorArgs ==
    { a \in [ cls             : {"Trainer", "TrainerDDP"},
              optimizer       : {"Minato", "AdamW", "LaProp", "SGD"},
              loss_objective  : {"MLE", "SimCTG", "CE"},
              dataset         : {"pile", "openorca", "text"},
              batch_size      : 1..4,
              batch_size_step : {1, 2},
              ddp_rank        : 0..(MaxWorld - 1),
              ddp_world_size  : 1..MaxWorld,
              dataset_shards  : 0..MaxShards ] :
        /\ a.ddp_rank < a.ddp_world_size
        /\ a.cls = "Trainer" =>
              (a.ddp_rank = 0 /\ a.ddp_world_size = 1 /\ a.dataset_shards = 0) }

CtorIdle ==
    /\ ctor_args = << >>
    /\ ctor_pc = "idle"
    /\ ctor_self = << >>

\* the call of the constructor; TrainerDDP.__init__ has stored the rank, the
\* world size and the shard count and entered Trainer.__init__ (375-379)
CtorInit ==
    /\ ctor_args \in CtorArgs
    /\ ctor_pc = "load_optimizer"
    /\ ctor_self = [ optimizer |-> None, batch_groups |-> None,
                     past_key_values_list |-> None, data_loader_train |-> None,
                     loss_function |-> None, optimizer_step |-> None, error |-> "" ]

\* where __init__ goes after a _load_* call: on, or out with the exception
CtorAfter(r, field, next) ==
    IF r.ok
        THEN /\ ctor_self' = [ctor_self EXCEPT ![field] = Some(r.value)]
             /\ ctor_pc' = next
        ELSE /\ ctor_self' = [ctor_self EXCEPT !.error = r.error]
             /\ ctor_pc' = "error"

\* trainer.py 65: self.optimizer = self._load_optimizer()
CtorLoadOptimizer ==
    /\ ctor_pc = "load_optimizer"
    /\ CtorAfter(IF ctor_args.cls = "TrainerDDP"
                    THEN TrainerDDP_load_optimizer(ctor_args)
                    ELSE Trainer_load_optimizer(ctor_args),
                 "optimizer", "load_cache")
    /\ UNCHANGED ctor_args

\* trainer.py 68-70: self.batch_groups, self.past_key_values_list
CtorLoadCache ==
    /\ ctor_pc = "load_cache"
    /\ ctor_self' =
          [ctor_self EXCEPT
              !.batch_groups = Some(ctor_args.batch_size \div ctor_args.batch_size_step),
              !.past_key_values_list =
                  Some(IF ctor_args.cls = "TrainerDDP"
                          THEN TrainerDDP_load_cache(ctor_args, ctor_args.ddp_world_size)
                          ELSE load_cache(ctor_args))]
    /\ ctor_pc' = "load_dataset"
    /\ UNCHANGED ctor_args

\* trainer.py 71: self.data_loader_train = self._load_dataset( dataset )
CtorLoadDataset ==
    /\ ctor_pc = "load_dataset"
    /\ CtorAfter(IF ctor_args.cls = "TrainerDDP"
                    THEN TrainerDDP_load_dataset(ctor_args.dataset, ctor_args.ddp_rank,
                                                 ctor_args.ddp_world_size,
                                                 ctor_args.dataset_shards)
                    ELSE Trainer_load_dataset(ctor_args.dataset),
                 "data_loader_train", "load_loss_function")
    /\ UNCHANGED ctor_args

\* trainer.py 72: self.loss_function = self._load_loss_function()
CtorLoadLossFunction ==
    /\ ctor_pc = "load_loss_function"
    /\ CtorAfter(load_loss_function(ctor_args), "loss_function", "finish")
    /\ UNCHANGED ctor_args

\* trainer.py 74-81, then for TrainerDDP trainer.py 382: batch_groups is set
\* again from the world size
CtorFinish ==
    /\ ctor_pc = "finish"
    /\ ctor_self' =
          [ctor_self EXCEPT
              !.optimizer_step = Some(0),
              !.batch_groups =
                  IF ctor_args.cls = "TrainerDDP"
                      THEN Some(ctor_args.batch_size
                                  \div (ctor_args.batch_size_step * ctor_args.ddp_world_size))
                      ELSE @]
    /\ ctor_pc' = "done"
    /\ UNCHANGED ctor_args

(***************************************************************************)
(* TrainerDDP (trainer.py 340-502): one process per rank, each with its    *)
(* own TrainerDDP, running train_batch_step on its share of the batches.   *)
(* The processes meet in the collective operations only.                   *)
(***************************************************************************)
Ranks(world_size) == 0..(world_size - 1)

DdpConfigs ==
    [ batch_size      : 1..4,
      batch_size_step : {1, 2},
      ddp_world_size  : 1..MaxWorld,
      dataset_shards  : 0..MaxShards ]

\* Faulty variant of require_sync: the first group synchronizes.
require_sync_First(i, groups) == i = 0
\* trainer.py 459: the value given to self.model.require_backward_grad_sync
require_sync(i, groups) == i = groups - 1

DdpIdle ==
    /\ ddp_config = << >>
    /\ ddp_self = << >>
    /\ ddp_pc = << >>
    /\ ddp_idx = << >>
    /\ ddp_sync = << >>
    /\ ddp_log = << >>
    /\ ddp_reduced = << >>
    /\ ddp_steps = << >>

\* TrainerDDP.__init__ (trainer.py 375-382) has run on every rank, with a
\* recognised optimizer and the 'pile' dataset; the wrapped model starts
\* with require_backward_grad_sync set.
DdpInit ==
    /\ ddp_config \in DdpConfigs
    /\ ddp_self =
          [r \in Ranks(ddp_config.ddp_world_size) |->
              [ batch_groups |-> ddp_config.batch_size
                                    \div (ddp_config.batch_size_step
                                            * ddp_config.ddp_world_size),
                past_key_values_list |->
                    TrainerDDP_load_cache(ddp_config, ddp_config.ddp_world_size),
                pile_shards |->
                    TrainerDDP_load_dataset("pile", r, ddp_config.ddp_world_size,
                                            ddp_config.dataset_shards).value.pile_shards,
                optimizer_step |-> 0 ]]
    /\ ddp_pc = [r \in Ranks(ddp_config.ddp_world_size) |-> "caller"]
    /\ ddp_idx = [r \in Ranks(ddp_config.ddp_world_size) |-> 0]
    /\ ddp_sync = [r \in Ranks(ddp_config.ddp_world_size) |-> TRUE]
    /\ ddp_log = [r \in Ranks(ddp_config.ddp_world_size) |-> << >>]
    /\ ddp_reduced = [r \in Ranks(ddp_config.ddp_world_size) |-> 0]
    /\ ddp_steps = [r \in Ranks(ddp_config.ddp_world_size) |-> << >>]

\* the ranks whose gradients are in the all-reduce that rank r's latest
\* synchronizing backward pass takes part in
ReducedWith(r) ==
    { q \in Ranks(ddp_config.ddp_world_size) : ddp_reduced[q] >= ddp_reduced[r] }

\* train_batch_step is called and enters its loop (trainer.py 451-458).  What
\* the caller does between two calls is not part of this specification.
DdpBeginBatchStep(r) ==
    /\ ddp_pc[r] = "caller"
    /\ Len(ddp_steps[r]) < MaxBatchSteps
    /\ ddp_idx' = [ddp_idx EXCEPT ![r] = 0]
    /\ ddp_pc' = [ddp_pc EXCEPT ![r] = NextGroup(0, ddp_self[r].batch_groups)]
    /\ UNCHANGED <<ddp_config, ddp_self, ddp_sync, ddp_log, ddp_reduced, ddp_steps>>

\* trainer.py 459-462: the flag for this group is set, the slot is moved to
\* the device and emptied
DdpRestoreCache(r) ==
    /\ ddp_pc[r] = "restore"
    /\ ddp_sync' = [ddp_sync EXCEPT
                       ![r] = require_sync(ddp_idx[r], ddp_self[r].batch_groups)]
    /\ ddp_self' = [ddp_self EXCEPT
                       ![r].past_key_values_list =
                           SetItem(@, ddp_idx[r], None)]
    /\ ddp_pc' = [ddp_pc EXCEPT ![r] = "sub_step"]
    /\ UNCHANGED <<ddp_config, ddp_idx, ddp_log, ddp_reduced, ddp_steps>>

\* trainer.py 464-470: the sub-step (its backward pass reduces the gradients
\* across the ranks when the flag is set), the offload to the slot, the
\* metrics; the loop advances
DdpSubStep(r) ==
    /\ ddp_pc[r] = "sub_step"
    /\ ddp_log' = [ddp_log EXCEPT
                      ![r] = Append(@, [ step |-> Len(ddp_steps[r]) + 1,
                                         idx  |-> ddp_idx[r],
                                         sync |-> ddp_sync[r] ])]
    /\ ddp_reduced' = [ddp_reduced EXCEPT ![r] = IF ddp_sync[r] THEN @ + 1 ELSE @]
    /\ ddp_self' = [ddp_self EXCEPT
                       ![r].past_key_values_list =
                           SetItem(@, ddp_idx[r],
                                   Some(<< Len(ddp_steps[r]) + 1, ddp_idx[r] >>))]
    /\ ddp_idx' = [ddp_idx EXCEPT ![r] = @ + 1]
    /\ ddp_pc' = [ddp_pc EXCEPT
                     ![r] = NextGroup(ddp_idx[r] + 1, ddp_self[r].batch_groups)]
    /\ UNCHANGED <<ddp_config, ddp_sync, ddp_steps>>

\* trainer.py 472-475: train_optim_step.  The optimizer reads the gradients
\* once the all-reduce of the last backward pass is complete, that is once
\* every rank has run that backward pass.
DdpOptimStep(r) ==
    /\ ddp_pc[r] = "optim_lr"
    /\ (ddp_self[r].batch_groups >= 1) =>
          ReducedWith(r) = Ranks(ddp_config.ddp_world_size)
    /\ ddp_self' = [ddp_self EXCEPT ![r].optimizer_step = @ + 1]
    /\ ddp_steps' = [ddp_steps EXCEPT
                        ![r] = Append(@, [ sub_steps |-> Len(ddp_log[r]),
                                           reduced   |-> ReducedWith(r) ])]
    /\ ddp_pc' = [ddp_pc EXCEPT ![r] = "caller"]
    /\ UNCHANGED <<ddp_config, ddp_idx, ddp_sync, ddp_log, ddp_reduced>>

(***************************************************************************)
(* TrainerDDP.reset_metrics (trainer.py 434-443), called by every rank at  *)
(* the end of an epoch.  sync_and_compute and dist.barrier are collective: *)
(* a rank leaves them once every rank has entered them.                    *)
(***************************************************************************)
\* trainer.py 76-79: the metrics, in the order of self.metrics.items()
MetricNames == << "loss", "acc" >>

\* metrics.Mean: the sum of the values seen and the number of them
Mean(weighted_sum, weights) == [ weighted_sum |-> weighted_sum, weights |-> weights ]
\* Mean.reset()
Mean_reset == Mean(0, 0)
\* Mean.compute(): a Mean without updates computes 0
Mean_compute(m) == IF m.weights = 0 THEN RZero ELSE Rat(m.weighted_sum, m.weights)

\* the states a Mean is in at the end of an epoch
EpochMeans == { Mean(1, 1), Mean(3, 2), Mean(0, 1) }

RECURSIVE Mean_merge(_, _)
\* Mean.merge_state over the states of ranks 0 .. n-1
Mean_merge(states, n) ==
    IF n = 0 THEN Mean(0, 0)
    ELSE LET rest == Mean_merge(states, n - 1)
         IN  Mean(rest.weighted_sum + states[n - 1].weighted_sum,
                  rest.weights + states[n - 1].weights)

\* sync_and_compute( metric ) as it returns on rank r: with one process the
\* metric's own value; otherwise the value of the merged states on the
\* recipient rank, which is rank 0 unless the caller names another, and None
\* on every other rank
sync_and_compute(r, world_size, own, states) ==
    IF world_size = 1 THEN Some(Mean_compute(own))
    ELSE IF r = 0 THEN Some(Mean_compute(Mean_merge(states, world_size)))
    ELSE None

\* Faulty variant of barrier: returns at once.
barrier_NoWait(r, entered, world_size) == TRUE
\* dist.barrier(): rank r leaves when every rank has entered the barrier as
\* often as r has
barrier(r, entered, world_size) ==
    \A q \in Ranks(world_size) : entered[q] >= entered[r]

ResetIdle ==
    /\ rst_world = 0
    /\ rst_epoch = << >>
    /\ rst_metrics = << >>
    /\ rst_pc = << >>
    /\ rst_name = << >>
    /\ rst_gathered = << >>
    /\ rst_stats = << >>
    /\ rst_barrier = << >>
    /\ rst_events = << >>

\* every rank is in train_epoch at line 502, its metrics holding the epoch
ResetInit ==
    /\ rst_world \in 1..MaxWorld
    /\ rst_epoch \in [Ranks(rst_world) -> [{"loss", "acc"} -> EpochMeans]]
    /\ rst_metrics = rst_epoch
    /\ rst_pc = [r \in Ranks(rst_world) |-> "train_epoch"]
    /\ rst_name = [r \in Ranks(rst_world) |-> 0]
    /\ rst_gathered = [m \in {"loss", "acc"} |-> [r \in Ranks(rst_world) |-> None]]
    /\ rst_stats = [r \in Ranks(rst_world) |-> [m \in {"loss", "acc"} |-> None]]
    /\ rst_barrier = [r \in Ranks(rst_world) |-> 0]
    /\ rst_events = [r \in Ranks(rst_world) |-> {}]

\* trainer.py 435-436: stats = {}, the loop starts at the first metric
ResetCall(r) ==
    /\ rst_pc[r] = "train_epoch"
    /\ rst_name' = [rst_name EXCEPT ![r] = 1]
    /\ rst_pc' = [rst_pc EXCEPT ![r] = "sync"]
    /\ UNCHANGED <<rst_world, rst_epoch, rst_metrics, rst_gathered, rst_stats,
                   rst_barrier, rst_events>>

\* trainer.py 438: sync_and_compute is entered; the rank gives the state of
\* its metric to the collective
ResetSyncEnter(r) ==
    /\ rst_pc[r] = "sync"
    /\ rst_gathered' = [rst_gathered EXCEPT
                           ![MetricNames[rst_name[r]]][r] =
                               Some(rst_metrics[r][MetricNames[rst_name[r]]])]
    /\ rst_pc' = [rst_pc EXCEPT ![r] = "in_sync"]
    /\ UNCHANGED <<rst_world, rst_epoch, rst_metrics, rst_name, rst_stats,
                   rst_barrier, rst_events>>

\* trainer.py 438: sync_and_compute returns once every rank has given its
\* state; float() of the result is stored in stats, and float( None )
\* raises TypeError
ResetSyncReturn(r) ==
    LET name   == MetricNames[rst_name[r]]
        result == sync_and_compute(r, rst_world, rst_metrics[r][name],
                                   [q \in Ranks(rst_world) |-> rst_gathered[name][q][1]])
    IN  /\ rst_pc[r] = "in_sync"
        /\ \A q \in Ranks(rst_world) : rst_gathered[name][q] # None
        /\ rst_events' = [rst_events EXCEPT ![r] = @ \cup { << name, "synced" >> }]
        /\ IF result = None
              THEN /\ rst_pc' = [rst_pc EXCEPT ![r] = "type_error"]
                   /\ UNCHANGED rst_stats
              ELSE /\ rst_pc' = [rst_pc EXCEPT ![r] = "barrier"]
                   /\ rst_stats' = [rst_stats EXCEPT ![r][name] = result]
        /\ UNCHANGED <<rst_world, rst_epoch, rst_metrics, rst_name, rst_gathered,
                       rst_barrier>>

\* trainer.py 441: dist.barrier() is entered
ResetBarrierEnter(r) ==
    /\ rst_pc[r] = "barrier"
    /\ rst_barrier' = [rst_barrier EXCEPT ![r] = @ + 1]
    /\ rst_pc' = [rst_pc EXCEPT ![r] = "in_barrier"]
    /\ UNCHANGED <<rst_world, rst_epoch, rst_metrics, rst_name, rst_gathered,
                   rst_stats, rst_events>>

\* trainer.py 441: dist.barrier() returns
ResetBarrierLeave(r) ==
    /\ rst_pc[r] = "in_barrier"
    /\ barrier(r, rst_barrier, rst_world)
    /\ rst_pc' = [rst_pc EXCEPT ![r] = "reset"]
    /\ UNCHANGED <<rst_world, rst_epoch, rst_metrics, rst_name, rst_gathered,
                   rst_stats, rst_barrier, rst_events>>

\* trainer.py 442-443: metric.reset(); the loop goes on to the next metric or
\* reset_metrics returns stats
ResetMetric(r) ==
    LET name == MetricNames[rst_name[r]]
    IN  /\ rst_pc[r] = "reset"
        /\ rst_metrics' = [rst_metrics EXCEPT ![r][name] = Mean_reset]
        /\ rst_events' = [rst_events EXCEPT ![r] = @ \cup { << name, "reset" >> }]
        /\ IF rst_name[r] < Len(MetricNames)
              THEN /\ rst_name' = [rst_name EXCEPT ![r] = @ + 1]
                   /\ rst_pc' = [rst_pc EXCEPT ![r] = "sync"]
              ELSE /\ rst_pc' = [rst_pc EXCEPT ![r] = "returned"]
                   /\ UNCHANGED rst_name
        /\ UNCHANGED <<rst_world, rst_epoch, rst_gathered, rst_stats, rst_barrier>>

(***************************************************************************)
(* The specifications.                                                     *)
(***************************************************************************)
ExtIdle == CtorIdle /\ DdpIdle /\ ResetIdle

InitTrim == TrimInit /\ SchedIdle /\ OptIdle /\ TrainIdle /\ ExtIdle
NextTrim ==
    \/ ApplyTrimCache /\ UNCHANGED <<schedVars, optVars, trainVars, extVars>>
    \/ ApplyCacheTo /\ UNCHANGED <<schedVars, optVars, trainVars, extVars>>
SpecTrim == InitTrim /\ [][NextTrim]_vars

InitSched == SchedInit /\ TrimIdle /\ OptIdle /\ TrainIdle /\ ExtIdle
NextSched ==
    \/ CallGetSchedule /\ UNCHANGED <<trimVars, optVars, trainVars, extVars>>
    \/ NextOptimizerStep /\ UNCHANGED <<trimVars, optVars, trainVars, extVars>>
SpecSched == InitSched /\ [][NextSched]_vars

InitMinato == OptInit /\ TrimIdle /\ SchedIdle /\ TrainIdle /\ ExtIdle
NextMinato == MinatoStep /\ UNCHANGED <<trimVars, schedVars, trainVars, extVars>>
SpecMinato == InitMinato /\ [][NextMinato]_vars

InitTrain == TrainInit /\ TrimIdle /\ SchedIdle /\ OptIdle /\ ExtIdle
NextTrain ==
    \/ BeginBatchStep /\ UNCHANGED <<trimVars, schedVars, optVars, extVars>>
    \/ RestoreCache /\ UNCHANGED <<trimVars, schedVars, optVars, extVars>>
    \/ TrainSubStep /\ UNCHANGED <<trimVars, schedVars, optVars, extVars>>
    \/ OffloadCache /\ UNCHANGED <<trimVars, schedVars, optVars, extVars>>
    \/ TrainOptimSetLr /\ UNCHANGED <<trimVars, schedVars, optVars, extVars>>
    \/ TrainOptimStep /\ UNCHANGED <<trimVars, schedVars, optVars, extVars>>
    \/ EndEpoch /\ UNCHANGED <<trimVars, schedVars, optVars, extVars>>
SpecTrain == InitTrain /\ [][NextTrain]_vars

CoreIdle == TrimIdle /\ SchedIdle /\ OptIdle /\ TrainIdle
coreVars == <<trimVars, schedVars, optVars, trainVars>>

InitCtor == CtorInit /\ CoreIdle /\ DdpIdle /\ ResetIdle
NextCtor ==
    \/ CtorLoadOptimizer /\ UNCHANGED <<coreVars, ddpVars, resetVars>>
    \/ CtorLoadCache /\ UNCHANGED <<coreVars, ddpVars, resetVars>>
    \/ CtorLoadDataset /\ UNCHANGED <<coreVars, ddpVars, resetVars>>
    \/ CtorLoadLossFunction /\ UNCHANGED <<coreVars, ddpVars, resetVars>>
    \/ CtorFinish /\ UNCHANGED <<coreVars, ddpVars, resetVars>>
SpecInit == InitCtor /\ [][NextCtor]_vars

InitDDP == DdpInit /\ CoreIdle /\ CtorIdle /\ ResetIdle
NextDDP ==
    \E r \in Ranks(ddp_config.ddp_world_size) :
        \/ DdpBeginBatchStep(r) /\ UNCHANGED <<coreVars, ctorVars, resetVars>>
        \/ DdpRestoreCache(r) /\ UNCHANGED <<coreVars, ctorVars, resetVars>>
        \/ DdpSubStep(r) /\ UNCHANGED <<coreVars, ctorVars, resetVars>>
        \/ DdpOptimStep(r) /\ UNCHANGED <<coreVars, ctorVars, resetVars>>
SpecDDP == InitDDP /\ [][NextDDP]_vars

InitReset == ResetInit /\ CoreIdle /\ CtorIdle /\ DdpIdle
NextReset ==
    \E r \in Ranks(rst_world) :
        \/ ResetCall(r) /\ UNCHANGED <<coreVars, ctorVars, ddpVars>>
        \/ ResetSyncEnter(r) /\ UNCHANGED <<coreVars, ctorVars, ddpVars>>
        \/ ResetSyncReturn(r) /\ UNCHANGED <<coreVars, ctorVars, ddpVars>>
        \/ ResetBarrierEnter(r) /\ UNCHANGED <<coreVars, ctorVars, ddpVars>>
        \/ ResetBarrierLeave(r) /\ UNCHANGED <<coreVars, ctorVars, ddpVars>>
        \/ ResetMetric(r) /\ UNCHANGED <<coreVars, ctorVars, ddpVars>>
SpecReset == InitReset /\ [][NextReset]_vars

(***************************************************************************)
(* Properties.                                                             *)
(***************************************************************************)

\* C1 (SpecTrim): trim_cache with 1 <= k <= L returns tensors of sequence
\* length exactly k, and position j of the result is position L-k+j of the
\* input: the last k positions, values unchanged, the oldest dropped.
C1_TrimKeepsLastK ==
    (tc_pc = "trimmed" /\ ~IsNone(tc_trim)) =>
        \A i \in 1..Len(tc_cache) :
            LET L == SeqLen(tc_cache[i])
                k == Get(tc_trim)
            IN  (1 <= k /\ k <= L) =>
                    /\ SeqLen(tc_out[i]) = k
                    /\ \A j \in 1..k : tc_out[i].data[j] = tc_cache[i].data[L - k + j]
                    /\ Len(tc_out) = Len(tc_cache)

\* C1 case: a cache of length 3 whose oldest entry differs from the next one
\* has been trimmed to 2.
C1_Witness ==
    /\ tc_pc = "trimmed"
    /\ tc_trim = Some(2)
    /\ SeqLen(tc_cache[1]) = 3
    /\ tc_cache[1].data[1] # tc_cache[1].data[2]
    /\ SeqLen(tc_out[1]) = 2

\* C2 as stated (SpecTrim): trim = None returns the cache unchanged and
\* trim = 0 returns an empty cache (sequence length 0 in every tensor).
C2_ZeroEmptiesCache ==
    tc_pc = "trimmed" =>
        /\ IsNone(tc_trim) => tc_out = tc_cache
        /\ tc_trim = Some(0) => \A i \in 1..Len(tc_out) : SeqLen(tc_out[i]) = 0

\* C2 amended (SpecTrim): trim = None returns the cache unchanged, and so does
\* trim = 0 (all L positions are kept); cache_to with trim = 0 keeps every
\* position of every tensor as well.  The result is empty only if the input is.
C2_ZeroKeepsCache ==
    /\ tc_pc = "trimmed" =>
        /\ IsNone(tc_trim) => tc_out = tc_cache
        /\ tc_trim = Some(0) => tc_out = tc_cache
    /\ (tc_pc = "moved" /\ tc_trim = Some(0)) =>
        \A i \in 1..Len(tc_cache) : Get(tc_out)[1][i].data = tc_cache[i].data

\* C2 case: trim_cache with trim = 0 has been applied to a cache of length 3.
C2_Witness ==
    /\ tc_pc = "trimmed"
    /\ tc_trim = Some(0)
    /\ SeqLen(tc_cache[1]) = 3
    /\ SeqLen(tc_out[1]) = 3

\* the sequence 0, 1, ..., n-1
Upto(n) == [i \in 1..n |-> i - 1]

\* every tensor of the cache has sequence length <= m; None holds no tensor
AllSeqLensAtMost(cache, m) ==
    IsNone(cache) \/
        \A l \in 1..Len(Get(cache)) : \A i \in 1..Len(Get(cache)[l]) :
            SeqLen(Get(cache)[l][i]) <= m

\* C3 (SpecTrain): every cache held in a slot of past_key_values_list is
\* detached, the cache handed to a sub-step as prior cache is detached, and
\* the backward pass of a sub-step reaches that sub-step's computation only,
\* never that of an earlier sub-step or batch step.
C3_CachesDetached ==
    /\ \A g \in 1..Len(past_key_values_list) : GraphOf(past_key_values_list[g]) = {}
    /\ pc = "sub_step" => GraphOf(past_key_values) = {}
    /\ pc = "offload" => backward_reached = {SubStepId}
    /\ Cardinality(backward_reached) <= 1

\* C3 case: a sub-step has run on a prior cache that an earlier batch step
\* left in its slot (the returned cache holds positions of an older batch),
\* and other slots hold caches.
C3_Witness ==
    /\ pc = "offload"
    /\ batch_steps_done >= 1
    /\ ~IsNone(past_key_values)
    /\ Get(past_key_values)[1][1].data[1] <= batch_steps_done
    /\ GraphOf(past_key_values) = {SubStepId}
    /\ \E g \in 1..Len(past_key_values_list) : ~IsNone(past_key_values_list[g])

\* C4 (SpecTrain): with length_cache = M >= 1, every slot of
\* past_key_values_list that holds a cache holds tensors of sequence length
\* <= M in every layer, after any number of batch steps.
C4_CacheLengthBound ==
    train_config.length_cache >= 1 =>
        \A g \in 1..Len(past_key_values_list) :
            AllSeqLensAtMost(past_key_values_list[g], train_config.length_cache)

\* C4 case: a slot is full (length M = 2, two layers) and its oldest
\* positions have been dropped: the oldest one left is from batch step 2 or
\* later, and the newest from a later batch step still.
C4_Witness ==
    /\ train_config.length_cache = 2
    /\ train_config.n_layers = 2
    /\ Len(past_key_values_list) >= 1
    /\ ~IsNone(past_key_values_list[1])
    /\ SeqLen(Get(past_key_values_list[1])[2][1]) = 2
    /\ Get(past_key_values_list[1])[2][1].data[1] >= 2
    /\ Get(past_key_values_list[1])[2][1].data[2] > Get(past_key_values_list[1])[2][1].data[1]

\* C5 (SpecTrain): every batch step runs the sub-steps of groups 0, 1, ...,
\* G-1 in that order, then one optimizer step, and none between groups;
\* after k completed batch steps optimizer_step = k and k optimizer steps have
\* run; every epoch runs batches_per_epoch batch steps before its metrics are
\* read and reset.
C5_BatchStepStateMachine ==
    /\ pc \in {"restore", "sub_step"} => (idx < batch_groups /\ groups_run = Upto(idx))
    /\ pc = "offload" => (idx < batch_groups /\ groups_run = Upto(idx + 1))
    /\ pc \in {"optim_lr", "optim_step"} => groups_run = Upto(batch_groups)
    /\ Len(optim_steps_done) = batch_steps_done
    /\ \A k \in 1..Len(optim_steps_done) :
          /\ optim_steps_done[k].groups = Upto(batch_groups)
          /\ optim_steps_done[k].at = k
    /\ pc = "caller" => optimizer_step = batch_steps_done
    /\ pc # "caller" => optimizer_step \in {batch_steps_done, batch_steps_done + 1}
    /\ Len(epochs_read) = epoch
    /\ \A e \in 1..Len(epochs_read) :
          /\ epochs_read[e].batches = train_config.batches_per_epoch
          /\ epochs_read[e].updates = train_config.batches_per_epoch * batch_groups
    /\ batch_steps_done = epoch * train_config.batches_per_epoch + batch

\* C5 case: an epoch of two batch steps of three groups each has ended.
C5_Witness ==
    /\ pc = "caller"
    /\ batch_groups = 3
    /\ train_config.batches_per_epoch = 2
    /\ epoch = 1
    /\ batch = 0
    /\ optimizer_step = 2
    /\ optim_steps_done[2].groups = << 0, 1, 2 >>

\* C10 (SpecTrain): when the optimizer step is about to run, every parameter
\* group's lr is get_schedule() * lr_max at the current optimizer_step, which
\* is n for the n-th optimizer step; so the n-th step ran with the schedule
\* value of step n, and with lr 0.0 (the constructor's value) only if that
\* is what the schedule gives.
C10_LearningRateApplied ==
    /\ pc = "optim_step" =>
          /\ optimizer_step = Len(optim_steps_done) + 1
          /\ \A g \in 1..Len(group_lr) :
                group_lr[g] = RMul(get_schedule(train_config, optimizer_step),
                                   train_config.lr_max)
    /\ \A n \in 1..Len(optim_steps_done) :
          /\ Len(optim_steps_done[n].lr) = 2
          /\ \A g \in 1..Len(optim_steps_done[n].lr) :
                /\ optim_steps_done[n].lr[g] =
                      RMul(get_schedule(train_config, n), train_config.lr_max)
                /\ optim_steps_done[n].lr[g] = RZero =>
                      get_schedule(train_config, n) = RZero

\* C10 case: two optimizer steps have run with different, nonzero rates.
C10_Witness ==
    /\ Len(optim_steps_done) >= 2
    /\ optim_steps_done[1].lr[1] # RZero
    /\ optim_steps_done[2].lr[2] # optim_steps_done[1].lr[2]
    /\ optim_steps_done[2].lr[1] = RMul(get_schedule(train_config, 2), train_config.lr_max)

(***************************************************************************)
(* Properties of the Minato update.  They speak of a step() call that      *)
(* returned (opt_status' = "ok"); g is the gradient the rule works on      *)
(* (minato.py 119), m the moment and p the value before the call.          *)
(***************************************************************************)
StepReturned == opt_calls' = opt_calls + 1 /\ opt_status' = "ok"
GradSeen(p)  == IF opt_hyper.maximize THEN VNeg(opt_grad'[p].val) ELSE opt_grad'[p].val
MomentOf(st) == IF IsNone(st) THEN VZero ELSE Get(st).exp_avg
StepOf(st)   == IF IsNone(st) THEN 0 ELSE Get(st).step
\* the weight_decay of the parameter group that holds p
DecayOf(p) ==
    LET groups == get_param_groups(opt_hyper)
        gi     == CHOOSE i \in 1..Len(groups) :
                     \E j \in 1..Len(groups[i].params) : groups[i].params[j] = p
    IN  groups[gi].weight_decay

\* C6 (SpecMinato): one update yields m' = beta*m + (1-beta)*g and
\* p' = p*(1 - lr*weight_decay) - lr*sign(m')*min(|m'|/1e-15, 1): the decay
\* multiplies the value before the sign step.  With g = 0 and m = 0,
\* p' = p*(1 - lr*weight_decay); with g = 1, m = 0, beta = 0.9, lr = 0.1 and
\* weight_decay = 0, m' = 0.1 and p' = p - 0.1.
C6_UpdateRule ==
    [][ StepReturned =>
          \A p \in ParamIds : opt_grad'[p].kind = "dense" =>
            LET g    == GradSeen(p)
                m    == MomentOf(opt_state[p])
                lr   == opt_hyper.lr
                beta == opt_hyper.beta
                wd   == DecayOf(p)
                m1   == VAdd(VScale(beta, m), VScale(RSub(ROne, beta), g))
                p1   == RSub(RMul(opt_param[p], RSub(ROne, RMul(lr, wd))),
                             RMul(lr, RMul(VSign(m1), VRatio(m1))))
            IN  /\ MomentOf(opt_state'[p]) = m1
                /\ opt_param'[p] = p1
                /\ (g = VZero /\ m = VZero) =>
                      opt_param'[p] = RMul(opt_param[p], RSub(ROne, RMul(lr, wd)))
                /\ (g = V(ROne, RZero) /\ m = VZero /\ beta = Rat(9, 10)
                        /\ lr = Rat(1, 10) /\ wd = RZero) =>
                      /\ MomentOf(opt_state'[p]) = V(Rat(1, 10), RZero)
                      /\ opt_param'[p] = RSub(opt_param[p], Rat(1, 10))
      ]_vars

\* C6 case: p = 1, g = 1, m = 0 with lr = 1/2, beta = 0, weight_decay = 1/5:
\* decay first gives 1 * (1 - 1/10) - 1/2 = 2/5 (decay last would give 9/20).
C6_Witness ==
    /\ opt_status = "ok"
    /\ opt_calls = 1
    /\ opt_hyper.lr = Rat(1, 2)
    /\ opt_hyper.beta = RZero
    /\ opt_hyper.weight_decay = Rat(1, 5)
    /\ opt_grad[1] = Dense(V(ROne, RZero))
    /\ opt_param[1] = Rat(2, 5)

\* C7 as stated (SpecMinato): with beta = 0, for every nonzero gradient of any
\* magnitude, after one update the moment equals g and the parameter has
\* moved by exactly lr in the direction -sign(g).
C7_AlwaysFullStep ==
    [][ (StepReturned /\ opt_hyper.beta = RZero) =>
          \A p \in ParamIds : (opt_grad'[p].kind = "dense" /\ GradSeen(p) # VZero) =>
            LET g     == GradSeen(p)
                decay == RMul(opt_param[p],
                              RSub(ROne, RMul(opt_hyper.lr, DecayOf(p))))
            IN  /\ MomentOf(opt_state'[p]) = g
                /\ opt_param'[p] = RSub(decay, RMul(opt_hyper.lr, VSign(g)))
      ]_vars

\* C7 amended (SpecMinato): with beta = 0, for every nonzero gradient and
\* every prior moment, after one update the moment equals g and the parameter
\* has moved in the direction -sign(g) by lr * min(|g| / 1e-15, 1): by exactly
\* lr when |g| >= 1e-15, by lr * |g| / 1e-15 < lr when 0 < |g| < 1e-15.
C7_StepByRatio ==
    [][ (StepReturned /\ opt_hyper.beta = RZero) =>
          \A p \in ParamIds : (opt_grad'[p].kind = "dense" /\ GradSeen(p) # VZero) =>
            LET g     == GradSeen(p)
                decay == RMul(opt_param[p],
                              RSub(ROne, RMul(opt_hyper.lr, DecayOf(p))))
                moved == RSub(decay, opt_param'[p])
            IN  /\ MomentOf(opt_state'[p]) = g
                /\ IF g.s # RZero \/ RLe(ROne, RAbs(g.t))
                      THEN moved = RMul(opt_hyper.lr, VSign(g))
                      ELSE /\ moved = RMul(RMul(opt_hyper.lr, RAbs(g.t)), VSign(g))
                           /\ RLe(RAbs(moved), opt_hyper.lr)
                           /\ RAbs(moved) # opt_hyper.lr
      ]_vars

\* C7 case: beta = 0, lr = 1/2, no decay, p = 1 and g = 1e-16: the
\* parameter has moved by lr / 10 to 19/20.
C7_Witness ==
    /\ opt_status = "ok"
    /\ opt_calls = 1
    /\ opt_hyper.beta = RZero
    /\ opt_hyper.lr = Rat(1, 2)
    /\ opt_hyper.weight_decay = RZero
    /\ opt_grad[1] = Dense(V(RZero, Rat(1, 10)))
    /\ MomentOf(opt_state[1]) = V(RZero, Rat(1, 10))
    /\ opt_param[1] = Rat(19, 20)

\* C8 (SpecMinato): a parameter's step counter equals the number of step()
\* calls in which it had a dense gradient; its state is created on the
\* first such call, counting from 0; the counter rises by exactly 1 in such a
\* call, never falls, and a call in which the parameter has no gradient
\* leaves its state as it is.
C8_StepCounter ==
    [][ \A p \in ParamIds :
          /\ opt_status' \in {"ready", "ok"} =>
                /\ StepOf(opt_state'[p]) = opt_seen'[p]
                /\ IsNone(opt_state'[p]) <=> opt_seen'[p] = 0
          /\ StepOf(opt_state'[p]) >= StepOf(opt_state[p])
          /\ (StepReturned /\ opt_grad'[p].kind = "dense") =>
                StepOf(opt_state'[p]) = StepOf(opt_state[p]) + 1
          /\ (IsNone(opt_state[p]) /\ ~IsNone(opt_state'[p])) =>
                /\ opt_grad'[p].kind = "dense"
                /\ StepOf(opt_state'[p]) <= 1
          /\ (opt_calls' = opt_calls + 1 /\ opt_grad'[p].kind = "none") =>
                opt_state'[p] = opt_state[p]
      ]_vars

\* C8 case: after two calls, parameter 1 had a gradient in the first only and
\* counts 1, parameter 3 had one in both and counts 2, parameter 2 had none
\* and has no state.
C8_Witness ==
    /\ opt_status = "ok"
    /\ opt_calls = 2
    /\ opt_grad[1].kind = "none"
    /\ opt_seen[1] = 1
    /\ StepOf(opt_state[1]) = 1
    /\ opt_seen[3] = 2
    /\ StepOf(opt_state[3]) = 2
    /\ IsNone(opt_state[2])

\* C9 (SpecSched): with lr_warmup_steps > 0, lr_cooldown_tokens above the
\* warmup tokens and 0 <= lr_cooldown_ratio <= 1: for 0 <= step <=
\* lr_warmup_steps get_schedule equals step / lr_warmup_steps and does not
\* decrease from step - 1 to step; for every step whose tokens reach
\* lr_cooldown_tokens it equals lr_cooldown_ratio and does not increase from
\* step to step + 1; and its value is in [0, 1] at every step.
C9_ScheduleShape ==
    LET W      == sc_config.lr_warmup_steps
        tokens == sc_config.batch_size * sc_config.length_sequence
        C      == sc_config.lr_cooldown_tokens
        f      == sc_config.lr_cooldown_ratio
    IN  (/\ ~IsNone(sc_value)
         /\ W > 0
         /\ C > W * tokens
         /\ RLe(RZero, f) /\ RLe(f, ROne)) =>
            /\ RLe(RZero, Get(sc_value)) /\ RLe(Get(sc_value), ROne)
            /\ sc_step <= W =>
                  /\ Get(sc_value) = Rat(sc_step, W)
                  /\ ~IsNone(sc_prev) => RLe(Get(sc_prev), Get(sc_value))
            /\ sc_step * tokens >= C => Get(sc_value) = f
            /\ (~IsNone(sc_prev) /\ (sc_step - 1) * tokens >= C) =>
                  RLe(Get(sc_value), Get(sc_prev))

\* C9 case: warmup of 2 steps, floor 1/10; the schedule passed the warmup
\* and the cosine, and has been at the floor for two steps.
C9_Witness ==
    /\ sc_config.lr_warmup_steps = 2
    /\ sc_config.lr_cooldown_ratio = Rat(1, 10)
    /\ sc_config.lr_cooldown_tokens > 2 * sc_config.batch_size * sc_config.length_sequence + 2
    /\ (sc_step - 1) * sc_config.batch_size * sc_config.length_sequence
          >= sc_config.lr_cooldown_tokens
    /\ sc_value = Some(Rat(1, 10))
    /\ sc_prev = Some(Rat(1, 10))

\* the rows of the groups whose sub-step ran, as one batch
GroupsAsOneBatch == Concat(SubSeq(tokens_xs, 1, Len(groups_run)))

\* C11 (SpecTrain): when the loop of train_batch_step has run its G >= 1
\* sub-steps, each backpropagating its group loss divided by G, the gradient
\* accumulated in p.grad (the loss scale taken out) equals the gradient of one
\* pass over the rows of those G groups as a single batch; G is the number
\* of sub-steps that ran.
C11_AccumulationEquivalence ==
    (pc \in {"optim_lr", "optim_step"} /\ batch_groups >= 1) =>
        /\ Len(groups_run) = batch_groups
        /\ unscale(p_grad) = LossGrad(GroupsAsOneBatch)

\* C11 case: two groups of two rows with gradients 1, 2 and 3, 4: the group
\* means are 3/2 and 7/2, the accumulated gradient is 5/2.
C11_Witness ==
    /\ pc = "optim_lr"
    /\ batch_groups = 2
    /\ train_config.batch_size_step = 2
    /\ LossGrad(tokens_xs[1]) = Rat(3, 2)
    /\ LossGrad(tokens_xs[2]) = Rat(7, 2)
    /\ unscale(p_grad) = Rat(5, 2)

\* C16 as stated (SpecTrain): the batch handed to train_batch_step is split
\* into exactly G = batch_size // batch_size_step groups of batch_size_step
\* rows each, every row of the batch is processed by exactly one sub-step
\* (so the rows the sub-steps were given are the rows 1..batch_size, each
\* once), and the number of cache slots equals G.
C16_GroupsCoverBatch ==
    pc = "optim_lr" =>
        /\ batch_groups = train_config.batch_size \div train_config.batch_size_step
        /\ Len(tokens_xs) = batch_groups
        /\ \A c \in 1..Len(tokens_xs) :
              Len(tokens_xs[c]) = train_config.batch_size_step
        /\ rows_run = [j \in 1..train_config.batch_size |-> j]
        /\ Len(past_key_values_list) = batch_groups

\* the accesses of the loop of train_batch_step for the groups 0 .. n-1
RECURSIVE SlotAccesses(_)
SlotAccesses(n) ==
    IF n = 0 THEN << >>
    ELSE SlotAccesses(n - 1)
            \o << Access("read", n - 1, n - 1), Access("clear", n - 1, n - 1),
                  Access("write", n - 1, n - 1) >>

\* number of entries of the log that are op on slot j
CountAccesses(log, op, j) ==
    Cardinality({ k \in 1..Len(log) : log[k].op = op /\ log[k].slot = j })

\* C17, the slots in every state (SpecTrain): all slots are absent after
\* construction; once the loop of a batch step is over, every slot j < G has
\* been read exactly once and has been given a cache exactly once, by group
\* j, the read before the write; while group idx is under way the slots of
\* the groups after it have not been touched.
C17_SlotsInOrder ==
    /\ (batch_steps_done = 0 /\ pc = "caller") =>
          \A j \in 1..Len(past_key_values_list) : IsNone(past_key_values_list[j])
    /\ Len(past_key_values_list) = batch_groups
    /\ pc \in {"optim_lr", "optim_step"} =>
          /\ slot_log = SlotAccesses(batch_groups)
          /\ \A j \in 0..(batch_groups - 1) :
                /\ CountAccesses(slot_log, "read", j) = 1
                /\ CountAccesses(slot_log, "write", j) = 1
    /\ pc = "restore" => slot_log = SlotAccesses(idx)
    /\ pc = "sub_step" => /\ SubSeq(slot_log, 1, 3 * idx) = SlotAccesses(idx)
                          /\ Len(slot_log) = 3 * idx + 2
                          /\ IsNone(past_key_values_list[idx + 1])
    /\ \A k \in 1..Len(slot_log) : slot_log[k].group = slot_log[k].slot

\* C17, every step (SpecTrain): a step of group idx leaves every slot
\* j # idx as it was, and the sub-step itself leaves all of them; the cache
\* handed to group idx is the one slot idx held; the cache stored at the end
\* of group idx goes to slot idx and is the one the sub-step of group idx
\* returned (its history, before it is detached, is that sub-step).
C17_SlotSteps ==
    [][ /\ \A j \in 1..Len(past_key_values_list) :
              (j # idx + 1) => past_key_values_list'[j] = past_key_values_list[j]
        /\ pc = "sub_step" => past_key_values_list' = past_key_values_list
        /\ pc = "restore" =>
              /\ past_key_values' = cache_to(past_key_values_list[idx + 1], "cuda", 0)
              /\ IsNone(past_key_values_list'[idx + 1])
        /\ pc = "offload" =>
              /\ past_key_values_list'[idx + 1] = cache_to(past_key_values, "cpu", 0)
              /\ GraphOf(past_key_values) \subseteq { << batch_steps_done + 1, idx >> }
              /\ groups_run[Len(groups_run)] = idx
      ]_vars

\* C17 (SpecTrain): cache slot ownership, in every state and in every step.
C17_SlotOwnership == []C17_SlotsInOrder /\ C17_SlotSteps

\* C17 case: in a second batch step of three groups the loop is over: every
\* slot held a cache when it was read and holds the cache of its own group.
C17_Witness ==
    /\ pc = "optim_lr"
    /\ batch_groups = 3
    /\ batch_steps_done = 1
    /\ Len(slot_log) = 9
    /\ slot_log[4] = Access("read", 1, 1)
    /\ slot_log[6] = Access("write", 1, 1)
    /\ \A j \in 1..3 : ~IsNone(past_key_values_list[j])

(***************************************************************************)
(* Minato.step and its errors.                                             *)
(***************************************************************************)
\* the parameter group that holds p, and p's place in it
GroupIndex(p) ==
    LET groups == get_param_groups(opt_hyper)
    IN  CHOOSE i \in 1..Len(groups) :
            \E j \in 1..Len(groups[i].params) : groups[i].params[j] = p
PlaceInGroup(p) ==
    LET plist == get_param_groups(opt_hyper)[GroupIndex(p)].params
    IN  CHOOSE j \in 1..Len(plist) : plist[j] = p
\* step() comes to p before q
VisitedBefore(p, q) ==
    \/ GroupIndex(p) < GroupIndex(q)
    \/ GroupIndex(p) = GroupIndex(q) /\ PlaceInGroup(p) < PlaceInGroup(q)
SparseParams(grads) == { p \in ParamIds : grads[p].kind = "sparse" }
FirstSparse(grads) ==
    CHOOSE p \in SparseParams(grads) :
        \A q \in SparseParams(grads) : q = p \/ VisitedBefore(p, q)
\* step() gets as far as a sparse gradient: there is one, and no group
\* before it ends the call (the capturable update of a group ends it)
SparseMet(grads) ==
    /\ SparseParams(grads) # {}
    /\ ~ ( /\ opt_hyper.capturable
           /\ \E q \in ParamIds : /\ GroupIndex(q) < GroupIndex(FirstSparse(grads))
                                  /\ grads[q].kind = "dense" )
\* the same gradients with the sparse ones taken away
WithoutSparse(grads) ==
    [p \in ParamIds |-> IF grads[p].kind = "sparse" THEN NoGrad ELSE grads[p]]

\* C18 as stated (SpecMinato): when step() raises on a sparse gradient, no
\* parameter value, moment or step counter of any parameter of any group
\* has been modified by that call.
C18_NothingModified ==
    [][ (opt_calls' = opt_calls + 1 /\ opt_status' = "sparse_error") =>
            /\ opt_param' = opt_param
            /\ opt_state' = opt_state
      ]_vars

\* C18 amended (SpecMinato): when step() meets a sparse gradient it raises at
\* that point.  At the error no parameter of the group that holds the
\* parameter, or of a later group, has a new value, moment or step counter;
\* the only change there is the fresh state (step 0, zero moment) of the
\* parameters of that group that step() came to before it with a dense
\* gradient and no state.  The groups before it have been updated in full, as
\* by a call without the sparse gradient.
C18_SparseRejection ==
    [][ (opt_calls' = opt_calls + 1 /\ SparseMet(opt_grad')) =>
          LET ps == FirstSparse(opt_grad')
              e  == step([param |-> opt_param, state |-> opt_state, status |-> "ok"],
                         WithoutSparse(opt_grad'), get_param_groups(opt_hyper), 1)
          IN  /\ opt_status' = "sparse_error"
              /\ opt_state'[ps] = opt_state[ps]
              /\ \A p \in ParamIds : GroupIndex(p) >= GroupIndex(ps) =>
                    /\ opt_param'[p] = opt_param[p]
                    /\ StepOf(opt_state'[p]) = StepOf(opt_state[p])
                    /\ MomentOf(opt_state'[p]) = MomentOf(opt_state[p])
                    /\ opt_state'[p] # opt_state[p] =>
                          /\ VisitedBefore(p, ps)
                          /\ opt_grad'[p].kind = "dense"
                          /\ IsNone(opt_state[p])
                          /\ opt_state'[p] = Some(NewState)
              /\ \A p \in ParamIds : GroupIndex(p) < GroupIndex(ps) =>
                    /\ opt_param'[p] = e.param[p]
                    /\ opt_state'[p] = e.state[p]
                    /\ opt_grad'[p].kind = "dense" =>
                          StepOf(opt_state'[p]) = StepOf(opt_state[p]) + 1
      ]_vars

\* C18 case: the first call finds a dense gradient 1 on parameter 1 (first
\* group) and a sparse one on parameter 3 (second group): the call has raised,
\* parameter 1 has moved and counts one step, parameter 3 is untouched.
C18_Witness ==
    /\ opt_status = "sparse_error"
    /\ opt_calls = 1
    /\ opt_grad[1] = Dense(V(ROne, RZero))
    /\ opt_grad[2].kind = "none"
    /\ opt_grad[3].kind = "sparse"
    /\ opt_param[1] # ROne
    /\ StepOf(opt_state[1]) = 1
    /\ IsNone(opt_state[3])
    /\ opt_param[3] = RInt(0 - 2)

\* C19 as stated (SpecMinato): with capturable set and lr a plain number, a
\* step() call on dense gradients completes and leaves the same parameter
\* values, moments and step counters as the call with capturable = false on
\* the same parameters, gradients, state and hyperparameters.
C19_CapturableAsEager ==
    [][ (/\ opt_calls' = opt_calls + 1
         /\ opt_hyper.capturable
         /\ SparseParams(opt_grad') = {}) =>
          LET eager == step([param |-> opt_param, state |-> opt_state, status |-> "ok"],
                            opt_grad',
                            get_param_groups([opt_hyper EXCEPT !.capturable = FALSE]), 1)
          IN  /\ opt_status' = "ok"
              /\ opt_param' = eager.param
              /\ opt_state' = eager.state
      ]_vars

\* C20 as stated (SpecInit): constructing Trainer or TrainerDDP with
\* train_config.optimizer = 'Minato' gets past _load_optimizer with a Minato
\* optimizer (for TrainerDDP, the ZeroRedundancyOptimizer over Minato), no
\* TypeError being raised for a keyword Minato does not take; an optimizer
\* name outside the recognised set ends the construction with 'Invalid
\* optimizer'.
C20_MinatoConstructible ==
    ctor_pc # "load_optimizer" =>
        /\ ctor_args.optimizer = "Minato" =>
              /\ ctor_self.error # "TypeError"
              /\ ctor_self.optimizer =
                    IF ctor_args.cls = "TrainerDDP"
                        THEN Some(<< "ZeroRedundancyOptimizer", "Minato" >>)
                        ELSE Some("Minato")
        /\ ctor_args.optimizer \notin {"Minato", "AdamW", "LaProp"} =>
              /\ ctor_pc = "error"
              /\ ctor_self.error = "ValueError: Invalid optimizer"

\* the sub-steps the loop of train_batch_step number k logs with n groups
DdpLoopLog(k, n) == [i \in 1..n |-> [step |-> k, idx |-> i - 1, sync |-> (i = n)]]

\* C12 (SpecDDP): on every rank, in every train_batch_step with G >= 1
\* groups, gradient synchronization is on during the sub-step of group idx
\* exactly when idx = G-1: the sub-steps of a batch step ran in the order
\* 0 .. G-1, all but the last with the flag off, the last with it on, and
\* each optimizer step ran after the G-th sub-step of its batch step, the
\* synchronizing one, with the gradients of every rank reduced.
C12_SyncOnLastGroup ==
    \A r \in Ranks(ddp_config.ddp_world_size) :
        LET G == ddp_self[r].batch_groups
            k == Len(ddp_steps[r])
        IN  G >= 1 =>
              /\ ddp_pc[r] = "sub_step" => (ddp_sync[r] <=> ddp_idx[r] = G - 1)
              /\ \A e \in 1..Len(ddp_log[r]) :
                    /\ ddp_log[r][e] = DdpLoopLog(ddp_log[r][e].step, G)[((e - 1) % G) + 1]
                    /\ ddp_log[r][e].step = ((e - 1) \div G) + 1
                    /\ ddp_log[r][e].sync <=> ddp_log[r][e].idx = G - 1
              /\ ddp_pc[r] = "optim_lr" =>
                    /\ Len(ddp_log[r]) = (k + 1) * G
                    /\ ddp_log[r][Len(ddp_log[r])].sync
                    /\ ddp_reduced[r] = k + 1
              /\ ddp_pc[r] = "caller" => Len(ddp_log[r]) = k * G
              /\ ddp_self[r].optimizer_step = k
              /\ \A n \in 1..k :
                    /\ ddp_steps[r][n].sub_steps = n * G
                    /\ ddp_steps[r][n].reduced = Ranks(ddp_config.ddp_world_size)

\* C12 case: two ranks with two groups each; rank 0 has run its second batch
\* step's first group without synchronization, after a first batch step whose
\* second group synchronized and whose optimizer step followed.
C12_Witness ==
    /\ ddp_config.ddp_world_size = 2
    /\ ddp_self[0].batch_groups = 2
    /\ Len(ddp_steps[0]) = 1
    /\ Len(ddp_log[0]) = 3
    /\ ~ddp_log[0][1].sync
    /\ ddp_log[0][2].sync
    /\ ~ddp_log[0][3].sync
    /\ ddp_steps[1] # << >>

\* the set of the entries of a sequence
Elems(seq) == { seq[i] : i \in 1..Len(seq) }

\* C15 (SpecDDP): the shard lists range( rank, dataset_shards, world_size )
\* of any two distinct ranks share no shard, no list names a shard twice, and
\* together the lists of all ranks are exactly the shards
\* 0 .. dataset_shards - 1.
C15_ShardsDisjoint ==
    LET W == ddp_config.ddp_world_size
        shards(r) == ddp_self[r].pile_shards
    IN  /\ \A r1, r2 \in Ranks(W) :
              r1 # r2 => Elems(shards(r1)) \cap Elems(shards(r2)) = {}
        /\ \A r \in Ranks(W) : Cardinality(Elems(shards(r))) = Len(shards(r))
        /\ UNION { Elems(shards(r)) : r \in Ranks(W) } = 0..(ddp_config.dataset_shards - 1)

\* C15 case: three shards on two ranks: rank 0 has shards 0 and 2, rank 1 has
\* shard 1, and training is under way on both.
C15_Witness ==
    /\ ddp_config.ddp_world_size = 2
    /\ ddp_config.dataset_shards = 3
    /\ ddp_self[0].pile_shards = << 0, 2 >>
    /\ ddp_self[1].pile_shards = << 1 >>
    /\ ddp_steps[0] # << >>
    /\ ddp_steps[1] # << >>

\* C13 (SpecReset): in every interleaving of the ranks running
\* reset_metrics, a rank that has reset a metric did so after every rank had
\* finished sync_and_compute of that metric; a rank leaves the barrier, and
\* stands before reset(), only when every rank has finished it.
C13_ResetAfterAllSynced ==
    \A r \in Ranks(rst_world) :
        \A i \in 1..Len(MetricNames) :
            (\/ << MetricNames[i], "reset" >> \in rst_events[r]
             \/ (rst_pc[r] = "reset" /\ rst_name[r] = i))
                => \A q \in Ranks(rst_world) :
                      << MetricNames[i], "synced" >> \in rst_events[q]

\* C13 case: with two ranks, rank 0 has its synchronized loss and waits in
\* the barrier while rank 1 is still inside sync_and_compute; rank 0 has
\* reset nothing.
C13_Witness ==
    /\ rst_world = 2
    /\ rst_pc[0] = "in_barrier"
    /\ rst_stats[0]["loss"] # None
    /\ rst_pc[1] = "in_sync"
    /\ rst_metrics[0] = rst_epoch[0]
    /\ rst_events[0] = { << "loss", "synced" >> }

\* C14 (SpecReset): when all ranks call reset_metrics, every rank that has
\* finished sync_and_compute of a metric has stored the value of that metric
\* over the updates of all ranks, the same on every rank, reset_metrics
\* fails on no rank, and a rank that has returned has empty accumulators.
C14_MetricConsistency ==
    \A r \in Ranks(rst_world) :
        /\ rst_pc[r] # "type_error"
        /\ \A i \in 1..Len(MetricNames) :
              << MetricNames[i], "synced" >> \in rst_events[r]
                  => rst_stats[r][MetricNames[i]] =
                        Some(Mean_compute(Mean_merge(
                            [q \in Ranks(rst_world) |-> rst_epoch[q][MetricNames[i]]],
                            rst_world)))
        /\ rst_pc[r] = "returned" =>
              \A i \in 1..Len(MetricNames) : rst_metrics[r][MetricNames[i]] = Mean_reset

====
